---- MODULE Spec2Model ----
(***************************************************************************)
(* Inventory ledger and production engine of erp-inventory-core.           *)
(*                                                                         *)
(* The database is two tables: stock_movements (an append-only ledger,     *)
(* kept here as the sequence of its rows in serial-id order) and           *)
(* bill_of_materials (a set of edge rows with serial ids).  Items,         *)
(* locations, suppliers and customers are master data read by id.          *)
(* A quantity is an integer count of the numeric(10,4) column's smallest   *)
(* step, 0.0001: one whole unit is Scale steps.  The product of a BOM      *)
(* multiplier and a produced quantity, which the handler holds as a        *)
(* number and not as a column value, is counted in steps of 1/Scale^2.     *)
(***************************************************************************)
EXTENDS Integers, Sequences, FiniteSets, TLC

VARIABLES items, nextItemId, locations, suppliers, customers, boms,
          nextBomId, ledger, clock, last, procs

vars == <<items, nextItemId, locations, suppliers, customers, boms,
          nextBomId, ledger, clock, last, procs>>

(***************************************************************************)
(* Bounds of the model.                                                    *)
(***************************************************************************)
MaxMoves == 3        \* rows in the ledger after which no request is served
MaxBomId == 3        \* serial ids the bill_of_materials table hands out
MaxQty == 2          \* largest quantity / multiplier a caller supplies
MaxClock == 1        \* latest instant the wall clock reaches
MaxItemId == 4       \* serial ids the items table hands out
MaxEdgeId == 5       \* serial ids of bill_of_materials in the larger graphs

(***************************************************************************)
(* Master data and input domains.                                          *)
(***************************************************************************)
Absent == -1         \* an optional input field left undefined
MissingId == 99999   \* an id no table holds
ItemIds == {1, 2, 3}
LocationIds == {1, 2}
PartnerIds == {1}
Scale == 10000       \* numeric(10, 4): steps of the quantity column per unit
Quantities == {q * Scale : q \in 1..MaxQty}
References == {"null", "ref"}

ItemsInit ==
  [i \in ItemIds |-> [is_manufactured |-> (i # 3), reorder_level |-> Scale]]

ItemInputs == ItemIds \cup {MissingId}
LocationInputs == LocationIds \cup {MissingId}
\* a supplier or customer id: none, 0 (a number no serial column hands out),
\* one on file, one not on file
PartnerInputs == {Absent, 0} \cup PartnerIds \cup {MissingId}

\* if (input.supplier_id), if (input.customer_id): neither undefined nor 0
Truthy(id) == id # Absent /\ id # 0

\* The input of a stock operation (receive, issue, adjust, transfer, produce).
StockInputs ==
  [item_id : ItemInputs, location_id : LocationInputs,
   to_location_id : {Absent}, quantity : Quantities,
   partner_id : PartnerInputs, reference : References]

(***************************************************************************)
(* Ledger rows and the aggregate the handlers read.                        *)
(***************************************************************************)
\* reference column: the caller's text, then what the handler composes on it
PlainRef(text) == [text |-> text, tag |-> "none", id |-> Absent]
TaggedRef(text, tag, id) == [text |-> text, tag |-> tag, id |-> id]

Movement(item, loc, type, qty, date, ref) ==
  [item_id |-> item, location_id |-> loc, movement_type |-> type,
   quantity |-> qty, date |-> date, reference |-> ref]

\* SELECT SUM(quantity) WHERE item_id = i AND location_id = l, no row read as 0
RECURSIVE CurrentQuantity(_, _, _)
CurrentQuantity(led, i, l) ==
  IF led = <<>> THEN 0
  ELSE LET m == led[Len(led)]
           rest == CurrentQuantity(SubSeq(led, 1, Len(led) - 1), i, l)
       IN IF m.item_id = i /\ m.location_id = l THEN rest + m.quantity ELSE rest

\* What a handler hands back: the outcome, the rows it inserts, and what an
\* error message reports.
Result(outcome, rows, available, requested, short) ==
  [outcome |-> outcome, rows |-> rows, available |-> available,
   requested |-> requested, short |-> short]
Rejected(outcome) == Result(outcome, <<>>, 0, 0, <<>>)

Call(op, r) ==
  [op |-> op, outcome |-> r.outcome, available |-> r.available,
   requested |-> r.requested, short |-> r.short, rows |-> r.rows]
NoCall == Call("none", Rejected("none"))

\* the requests that may be in flight at once, and one that is not
Procs == {1, 2}
Idle == [pc |-> "idle"]

(***************************************************************************)
(* receiveStock                                                            *)
(***************************************************************************)
ReceiveReference(inp) ==
  IF Truthy(inp.partner_id)
  THEN TaggedRef(inp.reference, "supplier", inp.partner_id)
  ELSE PlainRef(inp.reference)

ReceiveRow(inp, now) ==
  Movement(inp.item_id, inp.location_id, "Receipt", inp.quantity, now,
           ReceiveReference(inp))

\* a receipt that insists on a supplier
ReceiveResultSupplierRequired(inp, now) ==
  IF inp.item_id \notin DOMAIN items THEN Rejected("ItemNotFound")
  ELSE IF inp.location_id \notin locations THEN Rejected("LocationNotFound")
  ELSE IF inp.partner_id \notin suppliers THEN Rejected("SupplierNotFound")
  ELSE Result("ok", <<ReceiveRow(inp, now)>>, 0, 0, <<>>)

ReceiveResult(inp, now) ==
  IF inp.item_id \notin DOMAIN items THEN Rejected("ItemNotFound")
  ELSE IF inp.location_id \notin locations THEN Rejected("LocationNotFound")
  ELSE IF Truthy(inp.partner_id) /\ inp.partner_id \notin suppliers
  THEN Rejected("SupplierNotFound")
  ELSE Result("ok", <<ReceiveRow(inp, now)>>, 0, 0, <<>>)

(***************************************************************************)
(* issueStock                                                              *)
(***************************************************************************)
\* a guard that also refuses the last unit
IssueInsufficientStrict(currentStock, quantity) == currentStock <= quantity

IssueInsufficient(currentStock, quantity) == currentStock < quantity

IssueReference(inp) ==
  IF Truthy(inp.partner_id)
  THEN TaggedRef(inp.reference, "customer", inp.partner_id)
  ELSE PlainRef(inp.reference)

IssueRow(inp, now) ==
  Movement(inp.item_id, inp.location_id, "Issue", -inp.quantity, now,
           IssueReference(inp))

\* the validation and the aggregate read, on the ledger the handler sees
IssueCheck(inp, led) ==
  IF inp.item_id \notin DOMAIN items THEN Rejected("ItemNotFound")
  ELSE IF inp.location_id \notin locations THEN Rejected("LocationNotFound")
  ELSE IF Truthy(inp.partner_id) /\ inp.partner_id \notin customers
  THEN Rejected("CustomerNotFound")
  ELSE LET currentStock == CurrentQuantity(led, inp.item_id, inp.location_id)
       IN IF IssueInsufficient(currentStock, inp.quantity)
          THEN Result("InsufficientStock", <<>>, currentStock, inp.quantity, <<>>)
          ELSE Result("ok", <<>>, currentStock, inp.quantity, <<>>)

IssueResult(inp, led, now) ==
  LET c == IssueCheck(inp, led)
  IN IF c.outcome = "ok"
     THEN Result("ok", <<IssueRow(inp, now)>>, 0, 0, <<>>)
     ELSE c

(***************************************************************************)
(* adjustStock                                                             *)
(***************************************************************************)
AdjustQuantities == {q * Scale : q \in (-MaxQty)..MaxQty}

AdjustRow(inp, now) ==
  Movement(inp.item_id, inp.location_id, "Adjustment", inp.quantity, now,
           PlainRef(inp.reference))

\* an adjustment that refuses to take more than the pair holds
AdjustResultGuarded(inp, now) ==
  IF inp.item_id \notin DOMAIN items THEN Rejected("ItemNotFound")
  ELSE IF inp.location_id \notin locations THEN Rejected("LocationNotFound")
  ELSE IF CurrentQuantity(ledger, inp.item_id, inp.location_id) + inp.quantity < 0
  THEN Rejected("InsufficientStock")
  ELSE Result("ok", <<AdjustRow(inp, now)>>, 0, 0, <<>>)

AdjustResult(inp, now) ==
  IF inp.item_id \notin DOMAIN items THEN Rejected("ItemNotFound")
  ELSE IF inp.location_id \notin locations THEN Rejected("LocationNotFound")
  ELSE Result("ok", <<AdjustRow(inp, now)>>, 0, 0, <<>>)

(***************************************************************************)
(* transferStock                                                           *)
(***************************************************************************)
TransferInsufficient(currentStock, quantity) == currentStock < quantity

TransferOutRow(inp, currentDate) ==
  Movement(inp.item_id, inp.location_id, "Transfer Out", -inp.quantity,
           currentDate, PlainRef(inp.reference))

\* an incoming row stamped with a second reading of the clock
TransferInRowLate(inp, currentDate) ==
  Movement(inp.item_id, inp.to_location_id, "Transfer In", inp.quantity,
           currentDate + 1, PlainRef(inp.reference))

TransferInRow(inp, currentDate) ==
  Movement(inp.item_id, inp.to_location_id, "Transfer In", inp.quantity,
           currentDate, PlainRef(inp.reference))

\* the same checks with the stock read before the two locations are compared
TransferCheckStockFirst(inp, led) ==
  IF inp.item_id \notin DOMAIN items THEN Rejected("ItemNotFound")
  ELSE IF inp.location_id \notin locations THEN Rejected("LocationNotFound")
  ELSE IF inp.to_location_id \notin locations THEN Rejected("LocationNotFound")
  ELSE LET currentStock == CurrentQuantity(led, inp.item_id, inp.location_id)
       IN IF TransferInsufficient(currentStock, inp.quantity)
          THEN Result("InsufficientStock", <<>>, currentStock, inp.quantity, <<>>)
          ELSE IF inp.location_id = inp.to_location_id
          THEN Rejected("SameLocation")
          ELSE Result("ok", <<>>, currentStock, inp.quantity, <<>>)

TransferCheck(inp, led) ==
  IF inp.item_id \notin DOMAIN items THEN Rejected("ItemNotFound")
  ELSE IF inp.location_id \notin locations THEN Rejected("LocationNotFound")
  ELSE IF inp.to_location_id \notin locations THEN Rejected("LocationNotFound")
  ELSE IF inp.location_id = inp.to_location_id THEN Rejected("SameLocation")
  ELSE LET currentStock == CurrentQuantity(led, inp.item_id, inp.location_id)
       IN IF TransferInsufficient(currentStock, inp.quantity)
          THEN Result("InsufficientStock", <<>>, currentStock, inp.quantity, <<>>)
          ELSE Result("ok", <<>>, currentStock, inp.quantity, <<>>)

\* a transfer that books the outgoing row before it looks at the stock
TransferResultEager(inp, led, currentDate) ==
  LET c == TransferCheck(inp, led)
  IN IF c.outcome = "ok"
     THEN Result("ok", <<TransferOutRow(inp, currentDate),
                         TransferInRow(inp, currentDate)>>, 0, 0, <<>>)
     ELSE IF c.outcome = "InsufficientStock"
     THEN Result("InsufficientStock", <<TransferOutRow(inp, currentDate)>>,
                 c.available, c.requested, <<>>)
     ELSE c

TransferResult(inp, led, currentDate) ==
  LET c == TransferCheck(inp, led)
  IN IF c.outcome = "ok"
     THEN Result("ok", <<TransferOutRow(inp, currentDate),
                         TransferInRow(inp, currentDate)>>, 0, 0, <<>>)
     ELSE c

(***************************************************************************)
(* Bill of materials: createBillOfMaterial, updateBillOfMaterial,          *)
(* deleteBillOfMaterial.                                                   *)
(***************************************************************************)
Bom(id, parent, component, qty) ==
  [id |-> id, parent_item_id |-> parent, component_item_id |-> component,
   quantity |-> qty]

BomInput(id, parent, component, qty) ==
  [id |-> id, parent_item_id |-> parent, component_item_id |-> component,
   quantity |-> qty]

CreateInputs ==
  {BomInput(Absent, p, c, q) : p \in ItemInputs, c \in ItemInputs, q \in Quantities}

UpdateInputs ==
  {BomInput(id, p, c, q) :
     id \in (1..MaxBomId) \cup {MissingId}, p \in {Absent} \cup ItemInputs,
     c \in {Absent} \cup ItemInputs, q \in {Absent} \cup Quantities}

\* a row with parent = component and component = parent already exists
CreateCircular(bs, parent, component) ==
  \E b \in bs : b.parent_item_id = component /\ b.component_item_id = parent

CreateDuplicate(bs, parent, component) ==
  \E b \in bs : b.parent_item_id = parent /\ b.component_item_id = component

\* the same checks without the self-reference test
CreateOutcomeUnguarded(inp, bs) ==
  IF inp.parent_item_id \notin DOMAIN items THEN "ParentNotFound"
  ELSE IF inp.component_item_id \notin DOMAIN items THEN "ComponentNotFound"
  ELSE IF CreateCircular(bs, inp.parent_item_id, inp.component_item_id)
  THEN "CircularDependency"
  ELSE IF CreateDuplicate(bs, inp.parent_item_id, inp.component_item_id)
  THEN "DuplicateEdge"
  ELSE "ok"

CreateOutcome(inp, bs) ==
  IF inp.parent_item_id \notin DOMAIN items THEN "ParentNotFound"
  ELSE IF inp.component_item_id \notin DOMAIN items THEN "ComponentNotFound"
  ELSE IF inp.parent_item_id = inp.component_item_id THEN "SelfReference"
  ELSE IF CreateCircular(bs, inp.parent_item_id, inp.component_item_id)
  THEN "CircularDependency"
  ELSE IF CreateDuplicate(bs, inp.parent_item_id, inp.component_item_id)
  THEN "DuplicateEdge"
  ELSE "ok"

\* an update that writes the column default where no quantity is given
UpdateValuesDefaultQuantity(inp, cur) ==
  Bom(cur.id,
      IF inp.parent_item_id # Absent THEN inp.parent_item_id ELSE cur.parent_item_id,
      IF inp.component_item_id # Absent THEN inp.component_item_id
      ELSE cur.component_item_id,
      IF inp.quantity # Absent THEN inp.quantity ELSE Scale)

\* input.x ?? currentBom.x
UpdateValues(inp, cur) ==
  Bom(cur.id,
      IF inp.parent_item_id # Absent THEN inp.parent_item_id ELSE cur.parent_item_id,
      IF inp.component_item_id # Absent THEN inp.component_item_id
      ELSE cur.component_item_id,
      IF inp.quantity # Absent THEN inp.quantity ELSE cur.quantity)

\* The answers the recursive search can give.  The rows of one query come in
\* no promised order, so a node's answer is that of the first child, in some
\* order, whose subtree does not answer "false".  The search keeps no visited
\* set: a call that meets its own argument again on the way down repeats
\* itself for ever ("diverge").
RECURSIVE CheckCircularDependency(_, _, _, _, _)
CheckCircularDependency(bs, componentId, targetParentId, excludeBomId, path) ==
  IF componentId \in path THEN {"diverge"}
  ELSE LET relevantBoms ==
             {b \in bs : b.parent_item_id = componentId /\ b.id # excludeBomId}
           answers(b) ==
             IF b.component_item_id = targetParentId THEN {"true"}
             ELSE CheckCircularDependency(bs, b.component_item_id, targetParentId,
                                          excludeBomId, path \cup {componentId})
       IN {a \in {"true", "diverge"} : \E b \in relevantBoms : a \in answers(b)}
          \cup {a \in {"false"} : \A b \in relevantBoms : "false" \in answers(b)}

UpdateItemsExist(inp) ==
  /\ inp.parent_item_id # Absent => inp.parent_item_id \in DOMAIN items
  /\ inp.component_item_id # Absent => inp.component_item_id \in DOMAIN items

UpdateOutcomes(inp, bs) ==
  IF ~ \E b \in bs : b.id = inp.id THEN {"BomNotFound"}
  ELSE LET cur == CHOOSE b \in bs : b.id = inp.id
           new == UpdateValues(inp, cur)
           exist == IF UpdateItemsExist(inp) THEN "ok" ELSE "ItemNotFound"
       IN IF inp.parent_item_id = Absent /\ inp.component_item_id = Absent
          THEN {"ok"}
          ELSE IF new.parent_item_id = new.component_item_id
          THEN {"SelfReference"}
          ELSE {IF a = "true" THEN "CircularDependency"
                ELSE IF a = "diverge" THEN "Hang" ELSE exist :
                  a \in CheckCircularDependency(bs, new.component_item_id,
                                                new.parent_item_id, inp.id, {})}

UpdatedBoms(inp, bs) ==
  {IF b.id = inp.id THEN UpdateValues(inp, b) ELSE b : b \in bs}

\* a removal that takes the parent's other edges along
DeletedBomsCascade(id, bs) ==
  {b \in bs : \A d \in bs : d.id = id => b.parent_item_id # d.parent_item_id}

DeletedBoms(id, bs) == {b \in bs : b.id # id}

(***************************************************************************)
(* produceItem                                                             *)
(***************************************************************************)
\* every order in which a query may hand back the rows of S
RECURSIVE Orders(_)
Orders(S) ==
  IF S = {} THEN {<<>>}
  ELSE UNION {{<<x>> \o t : t \in Orders(S \ {x})} : x \in S}

\* a BOM read that also explodes the sub-assemblies of the components
BomComponentsExploded(bs, item) ==
  {b \in bs :
     /\ b.component_item_id \in DOMAIN items
     /\ \/ b.parent_item_id = item
        \/ \E a \in bs : a.parent_item_id = item
                          /\ a.component_item_id = b.parent_item_id}

\* bill_of_materials JOIN items ON component WHERE parent_item_id = item
BomComponents(bs, item) ==
  {b \in bs : b.parent_item_id = item /\ b.component_item_id \in DOMAIN items}

\* parseFloat(quantity_per_unit) * input.quantity, in steps of 1/Scale^2
RequiredQuantity(quantity_per_unit, quantity) == quantity_per_unit * quantity

\* what the quantity column keeps of a number given in steps of 1/Scale^2:
\* the nearest multiple of its own step, a tie going away from zero
ToNumeric(x) ==
  LET magnitude == IF x < 0 THEN -x ELSE x
      rounded == (magnitude + Scale \div 2) \div Scale
  IN IF x < 0 THEN -rounded ELSE rounded

RequiredComponents(bomComponents, quantity) ==
  [k \in 1..Len(bomComponents) |->
     [item_id |-> bomComponents[k].component_item_id,
      required_quantity |->
        RequiredQuantity(bomComponents[k].quantity, quantity)]]

\* one aggregate read per required component, in order
StockLevels(requiredComponents, led, loc) ==
  [k \in 1..Len(requiredComponents) |->
     [item_id |-> requiredComponents[k].item_id,
      current_quantity |->
        CurrentQuantity(led, requiredComponents[k].item_id, loc)]]

\* stockLevels.find(stock => stock.item_id === item), none read as 0
AvailableOf(stockLevels, item) ==
  LET ks == {k \in 1..Len(stockLevels) : stockLevels[k].item_id = item}
  IN IF ks = {} THEN 0
     ELSE stockLevels[CHOOSE k \in ks : \A j \in ks : k <= j].current_quantity

\* available < required.required_quantity as numbers: available is a count
\* of column steps, so it is less than required_quantity / Scale exactly when
\* it is less than that quotient rounded up
ComponentInsufficient(available, required_quantity) ==
  available < (required_quantity + Scale - 1) \div Scale

\* a validation that stops at the first component found short
InsufficientStockFirst(requiredComponents, stockLevels) ==
  LET short(r) ==
        AvailableOf(stockLevels, r.item_id)
        < (r.required_quantity + Scale - 1) \div Scale
      lacking == SelectSeq(requiredComponents, short)
      first == SubSeq(lacking, 1, IF Len(lacking) > 0 THEN 1 ELSE 0)
  IN [k \in 1..Len(first) |->
        [item_id |-> first[k].item_id, need |-> first[k].required_quantity,
         have |-> AvailableOf(stockLevels, first[k].item_id)]]

InsufficientStock(requiredComponents, stockLevels) ==
  LET short(r) ==
        ComponentInsufficient(AvailableOf(stockLevels, r.item_id),
                              r.required_quantity)
      lacking == SelectSeq(requiredComponents, short)
  IN [k \in 1..Len(lacking) |->
        [item_id |-> lacking[k].item_id, need |-> lacking[k].required_quantity,
         have |-> AvailableOf(stockLevels, lacking[k].item_id)]]

ProductionRow(inp, currentDate) ==
  Movement(inp.item_id, inp.location_id, "Production", inp.quantity,
           currentDate, PlainRef(inp.reference))

\* items.name of the item of this id
ItemName(id) == "item" \o ToString(id)

\* a reference that carries the suffix whatever the caller gave
ConsumptionReferenceSuffixed(inp) ==
  "Production of " \o ItemName(inp.item_id) \o " - " \o inp.reference

\* input.reference ? `Production of ${name} - ${input.reference}`
\*                 : `Production of ${name}`; null and "" are falsy
ConsumptionReference(inp) ==
  IF inp.reference # "null" /\ inp.reference # ""
  THEN "Production of " \o ItemName(inp.item_id) \o " - " \o inp.reference
  ELSE "Production of " \o ItemName(inp.item_id)

ConsumptionRow(inp, required, currentDate) ==
  Movement(required.item_id, inp.location_id, "Consumption",
           ToNumeric(-required.required_quantity), currentDate,
           TaggedRef(ConsumptionReference(inp), "production", inp.item_id))

ProduceRows(inp, requiredComponents, currentDate) ==
  <<ProductionRow(inp, currentDate)>> \o
  [k \in 1..Len(requiredComponents) |->
     ConsumptionRow(inp, requiredComponents[k], currentDate)]

\* the item checks and the BOM read
\* the same checks without the test of the manufactured flag
ProduceItemCheckAnyItem(inp, bomComponents) ==
  IF inp.item_id \notin DOMAIN items THEN "ItemNotFound"
  ELSE IF Len(bomComponents) = 0 THEN "NoBom"
  ELSE "ok"

ProduceItemCheck(inp, bomComponents) ==
  IF inp.item_id \notin DOMAIN items THEN "ItemNotFound"
  ELSE IF ~ items[inp.item_id].is_manufactured THEN "NotManufactured"
  ELSE IF Len(bomComponents) = 0 THEN "NoBom"
  ELSE "ok"

ProduceResult(inp, led, bomComponents, currentDate) ==
  LET pre == ProduceItemCheck(inp, bomComponents)
      requiredComponents == RequiredComponents(bomComponents, inp.quantity)
      stockLevels == StockLevels(requiredComponents, led, inp.location_id)
      insufficientStock == InsufficientStock(requiredComponents, stockLevels)
  IN IF pre # "ok" THEN Rejected(pre)
     ELSE IF Len(insufficientStock) > 0
     THEN Result("InsufficientComponentStock", <<>>, 0, 0, insufficientStock)
     ELSE Result("ok", ProduceRows(inp, requiredComponents, currentDate), 0, 0,
                 <<>>)

(***************************************************************************)
(* getStockLevels                                                          *)
(***************************************************************************)
\* the rows of stock_movements that join an item and a location on file
JoinedMovements(led) ==
  {k \in 1..Len(led) :
     led[k].item_id \in DOMAIN items /\ led[k].location_id \in locations}

\* sum(stock_movements.quantity) over the rows ks
RECURSIVE SumQuantity(_, _)
SumQuantity(led, ks) ==
  IF ks = {} THEN 0
  ELSE LET k == CHOOSE x \in ks : TRUE
       IN led[k].quantity + SumQuantity(led, ks \ {k})

StockLevel(led, item, loc, ks) ==
  [item_id |-> item, location_id |-> loc,
   current_quantity |-> SumQuantity(led, ks),
   reorder_level |-> items[item].reorder_level]

\* the where clause: a filter applies only when it is given
MatchingMovements(led, itemId, locationId) ==
  {k \in JoinedMovements(led) :
     /\ itemId # Absent => led[k].item_id = itemId
     /\ locationId # Absent => led[k].location_id = locationId}

\* group by item and location: one row per group
GroupedLevels(led, matching) ==
  LET groups == {<<led[k].item_id, led[k].location_id>> : k \in matching}
  IN {StockLevel(led, g[1], g[2],
                 {k \in matching :
                    led[k].item_id = g[1] /\ led[k].location_id = g[2]}) :
        g \in groups}

\* a report that leaves out the pairs that hold nothing
StockLevelRowsNonZero(led, itemId, locationId) ==
  {r \in GroupedLevels(led, MatchingMovements(led, itemId, locationId)) :
     r.current_quantity # 0}

StockLevelRows(led, itemId, locationId) ==
  GroupedLevels(led, MatchingMovements(led, itemId, locationId))

(***************************************************************************)
(* getDashboardMetrics                                                     *)
(***************************************************************************)
\* current_stock: the sum of an item's movements over all locations
ItemQuantity(led, item) ==
  SumQuantity(led, {k \in 1..Len(led) : led[k].item_id = item})

\* item_stock_levels where current_quantity < reorder_level
LowStockItems(led) ==
  {i \in DOMAIN items : ItemQuantity(led, i) < items[i].reorder_level}

DashboardMetrics(led) ==
  [total_items |-> Cardinality(DOMAIN items),
   total_locations |-> Cardinality(locations),
   low_stock_items |-> Cardinality(LowStockItems(led)),
   recent_movements |-> Len(led)]

(***************************************************************************)
(* getStockMovements                                                       *)
(***************************************************************************)
MovementKinds ==
  {"Receipt", "Issue", "Adjustment", "Transfer In", "Transfer Out",
   "Production", "Consumption"}

\* created_at, the database's own reading of the time when a row is
\* inserted: requests served one at a time insert their rows in separate
\* statements, so a later row has a later created_at
CreatedAt(led, k) == k

\* conditions with an end date that is left out of the range
MovementConditionsOpenEnd(m, input) ==
  /\ input.item_id # Absent => m.item_id = input.item_id
  /\ input.location_id # Absent => m.location_id = input.location_id
  /\ input.movement_type # "any" => m.movement_type = input.movement_type
  /\ input.start_date # Absent => m.date >= input.start_date
  /\ input.end_date # Absent => m.date < input.end_date

\* the conditions pushed for the filters that are not undefined
MovementConditions(m, input) ==
  /\ input.item_id # Absent => m.item_id = input.item_id
  /\ input.location_id # Absent => m.location_id = input.location_id
  /\ input.movement_type # "any" => m.movement_type = input.movement_type
  /\ input.start_date # Absent => m.date >= input.start_date
  /\ input.end_date # Absent => m.date <= input.end_date

\* orderBy(desc(date), desc(created_at)): row i may come before row j
Precedes(led, i, j) ==
  \/ led[i].date > led[j].date
  \/ led[i].date = led[j].date /\ CreatedAt(led, i) >= CreatedAt(led, j)

MovementRow(led, k) ==
  [id |-> k, item_id |-> led[k].item_id, location_id |-> led[k].location_id,
   movement_type |-> led[k].movement_type, quantity |-> led[k].quantity,
   date |-> led[k].date, reference |-> led[k].reference]

\* every sequence the query may return: the matching rows of the join, in
\* an order the sort keys allow
StockMovementRows(led, input) ==
  LET matching == {k \in JoinedMovements(led) : MovementConditions(led[k], input)}
      sorted == {o \in Orders(matching) :
                   \A i \in 1..Len(o), j \in 1..Len(o) :
                     i < j => Precedes(led, o[i], o[j])}
  IN {[n \in 1..Len(o) |-> MovementRow(led, o[n])] : o \in sorted}

(***************************************************************************)
(* The state after construction: empty tables over the master data.        *)
(***************************************************************************)
Init ==
  /\ items = ItemsInit
  /\ nextItemId = Cardinality(ItemIds) + 1
  /\ locations = LocationIds
  /\ suppliers = PartnerIds
  /\ customers = PartnerIds
  /\ boms = {}
  /\ nextBomId = 1
  /\ ledger = <<>>
  /\ clock = 0
  /\ last = NoCall
  /\ procs = [p \in Procs |-> Idle]

master == <<items, nextItemId, locations, suppliers, customers>>

(***************************************************************************)
(* One request served from start to end with no other request in between.  *)
(* `last` is what the caller gets back: the outcome and what the message   *)
(* or the returned rows report.                                            *)
(***************************************************************************)
\* a handler that writes its row over the newest row of the ledger
ServeInPlace(op, r) ==
  /\ Len(ledger) < MaxMoves
  /\ ledger' = IF ledger # <<>> /\ r.rows # <<>>
               THEN SubSeq(ledger, 1, Len(ledger) - 1) \o r.rows
               ELSE ledger \o r.rows
  /\ last' = Call(op, r)
  /\ UNCHANGED <<master, boms, nextBomId, clock, procs>>

\* a stock handler's effect: its rows appended, its answer returned
Serve(op, r) ==
  /\ Len(ledger) < MaxMoves
  /\ ledger' = ledger \o r.rows
  /\ last' = Call(op, r)
  /\ UNCHANGED <<master, boms, nextBomId, clock, procs>>

ReceiveStock(inputs) ==
  \E inp \in inputs : Serve("receiveStock", ReceiveResult(inp, clock))

IssueStock(inputs) ==
  \E inp \in inputs : Serve("issueStock", IssueResult(inp, ledger, clock))

AdjustStock(inputs) ==
  \E inp \in inputs : Serve("adjustStock", AdjustResult(inp, clock))

TransferStock(inputs) ==
  \E inp \in inputs :
    Serve("transferStock", TransferResult(inp, ledger, clock))

ProduceItem(inputs) ==
  \E inp \in inputs :
    \E bomComponents \in Orders(BomComponents(boms, inp.item_id)) :
      Serve("produceItem", ProduceResult(inp, ledger, bomComponents, clock))

\* maxId: the last serial id the table hands out in the run at hand
CreateBillOfMaterial(inputs, maxId) ==
  \E inp \in inputs :
    LET outcome == CreateOutcome(inp, boms)
    IN /\ outcome = "ok" => nextBomId <= maxId
       /\ boms' = IF outcome = "ok"
                  THEN boms \cup {Bom(nextBomId, inp.parent_item_id,
                                      inp.component_item_id, inp.quantity)}
                  ELSE boms
       /\ nextBomId' = IF outcome = "ok" THEN nextBomId + 1 ELSE nextBomId
       /\ last' = Call("createBillOfMaterial", Rejected(outcome))
       /\ UNCHANGED <<master, ledger, clock, procs>>

UpdateBillOfMaterial(inputs) ==
  \E inp \in inputs :
    \E outcome \in UpdateOutcomes(inp, boms) :
      /\ boms' = IF outcome = "ok" THEN UpdatedBoms(inp, boms) ELSE boms
      /\ last' = Call("updateBillOfMaterial", Rejected(outcome))
      /\ UNCHANGED <<master, nextBomId, ledger, clock, procs>>

DeleteBillOfMaterial(ids) ==
  \E id \in ids :
    /\ boms' = DeletedBoms(id, boms)
    /\ last' = Call("deleteBillOfMaterial",
                    Rejected(IF boms' # boms THEN "true" ELSE "false"))
    /\ UNCHANGED <<master, nextBomId, ledger, clock, procs>>

\* createItem: a new row under the next serial id
CreateItem(flags) ==
  \E is_manufactured \in flags :
    /\ nextItemId <= MaxItemId
    /\ items' = [i \in DOMAIN items \cup {nextItemId} |->
                   IF i = nextItemId
                   THEN [is_manufactured |-> is_manufactured, reorder_level |-> Scale]
                   ELSE items[i]]
    /\ nextItemId' = nextItemId + 1
    /\ last' = Call("createItem", Rejected("ok"))
    /\ UNCHANGED <<locations, suppliers, customers, boms, nextBomId, ledger,
                   clock, procs>>

\* getStockLevels: the groups in the order the database hands them back
GetStockLevels(itemIds, locationIds) ==
  \E itemId \in itemIds, locationId \in locationIds :
    \E rows \in Orders(StockLevelRows(ledger, itemId, locationId)) :
      /\ last' = Call("getStockLevels", Result("ok", rows, 0, 0, <<>>))
      /\ UNCHANGED <<master, boms, nextBomId, ledger, clock, procs>>

GetDashboardMetrics ==
  /\ last' = Call("getDashboardMetrics",
                  Result("ok", <<DashboardMetrics(ledger)>>, 0, 0, <<>>))
  /\ UNCHANGED <<master, boms, nextBomId, ledger, clock, procs>>

GetStockMovements(inputs) ==
  \E input \in inputs :
    \E rows \in StockMovementRows(ledger, input) :
      /\ last' = Call("getStockMovements", Result("ok", rows, 0, 0, <<>>))
      /\ UNCHANGED <<master, boms, nextBomId, ledger, clock, procs>>

\* deleteItem without the look at the bill of materials
DeleteItemOutcomeLedgerOnly(id, bs, led) ==
  IF id \notin DOMAIN items THEN "ItemNotFound"
  ELSE IF \E k \in 1..Len(led) : led[k].item_id = id THEN "HasMovements"
  ELSE "ok"

\* deleteItem: refused while a BOM edge or a movement names the item
DeleteItemOutcome(id, bs, led) ==
  IF id \notin DOMAIN items THEN "ItemNotFound"
  ELSE IF \E b \in bs : b.parent_item_id = id \/ b.component_item_id = id
  THEN "ReferencedInBom"
  ELSE IF \E k \in 1..Len(led) : led[k].item_id = id THEN "HasMovements"
  ELSE "ok"

DeleteItem(ids) ==
  \E id \in ids :
    LET outcome == DeleteItemOutcome(id, boms, ledger)
    IN /\ items' = IF outcome = "ok"
                   THEN [i \in DOMAIN items \ {id} |-> items[i]]
                   ELSE items
       /\ last' = Call("deleteItem", Rejected(outcome))
       /\ UNCHANGED <<nextItemId, locations, suppliers, customers, boms,
                      nextBomId, ledger, clock, procs>>

\* deleteLocation: refused while a movement names the location
DeleteLocationOutcome(id, led) ==
  IF id \notin locations THEN "LocationNotFound"
  ELSE IF \E k \in 1..Len(led) : led[k].location_id = id THEN "HasMovements"
  ELSE "ok"

DeleteLocation(ids) ==
  \E id \in ids :
    LET outcome == DeleteLocationOutcome(id, ledger)
    IN /\ locations' = IF outcome = "ok" THEN locations \ {id} ELSE locations
       /\ last' = Call("deleteLocation", Rejected(outcome))
       /\ UNCHANGED <<items, nextItemId, suppliers, customers, boms,
                      nextBomId, ledger, clock, procs>>

\* deleteSupplier: refused while the reference of a Receipt names the supplier
DeleteSupplierOutcome(id, led) ==
  IF id \notin suppliers THEN "SupplierNotFound"
  ELSE IF \E k \in 1..Len(led) :
            /\ led[k].movement_type = "Receipt"
            /\ led[k].reference.tag = "supplier"
            /\ led[k].reference.id = id
  THEN "HasMovements"
  ELSE "ok"

DeleteSupplier(ids) ==
  \E id \in ids :
    LET outcome == DeleteSupplierOutcome(id, ledger)
    IN /\ suppliers' = IF outcome = "ok" THEN suppliers \ {id} ELSE suppliers
       /\ last' = Call("deleteSupplier", Rejected(outcome))
       /\ UNCHANGED <<items, nextItemId, locations, customers, boms,
                      nextBomId, ledger, clock, procs>>

\* deleteCustomer: refused while a reference is the customer's name, which no
\* reference a handler composes ("Customer ID: n") ever is
DeleteCustomerOutcome(id, led) ==
  IF id \notin customers THEN "CustomerNotFound"
  ELSE IF \E k \in 1..Len(led) :
            led[k].reference.tag = "customerName" /\ led[k].reference.id = id
  THEN "HasMovements"
  ELSE "ok"

DeleteCustomer(ids) ==
  \E id \in ids :
    LET outcome == DeleteCustomerOutcome(id, ledger)
    IN /\ customers' = IF outcome = "ok" THEN customers \ {id} ELSE customers
       /\ last' = Call("deleteCustomer", Rejected(outcome))
       /\ UNCHANGED <<items, nextItemId, locations, suppliers, boms,
                      nextBomId, ledger, clock, procs>>

\* time passes between two requests
Tick ==
  /\ clock < MaxClock
  /\ clock' = clock + 1
  /\ UNCHANGED <<master, boms, nextBomId, ledger, last, procs>>

(***************************************************************************)
(* The bill of materials alone.                                            *)
(***************************************************************************)
BomIds == 1..MaxBomId

NextBom ==
  \/ CreateBillOfMaterial(CreateInputs, MaxBomId)
  \/ UpdateBillOfMaterial(UpdateInputs)
  \/ DeleteBillOfMaterial(BomIds \cup {MissingId})

SpecBom == Init /\ [][NextBom]_vars

(***************************************************************************)
(* The ledger alone: receive, issue and transfer.  Both items are          *)
(* received at location 1; item 1 is then issued and moved around.         *)
(***************************************************************************)
LedgerReceipts ==
  [item_id : {1, 2}, location_id : {1}, to_location_id : {Absent},
   quantity : Quantities, partner_id : {Absent}, reference : {"ref"}]

LedgerInputs ==
  [item_id : {1}, location_id : LocationIds, to_location_id : {Absent},
   quantity : Quantities, partner_id : {Absent}, reference : {"ref"}]

TransferInputs ==
  [item_id : {1}, location_id : LocationIds, to_location_id : LocationIds,
   quantity : Quantities, partner_id : {Absent}, reference : {"ref"}]

NextLedger ==
  \/ ReceiveStock(LedgerReceipts)
  \/ IssueStock(LedgerInputs)
  \/ TransferStock(TransferInputs)
  \/ Tick

SpecLedger == Init /\ [][NextLedger]_vars

(***************************************************************************)
(* Production: the ledger and the bill of materials together, one request  *)
(* at a time, without adjustments.  Item 1 is assembled from items 2 and   *)
(* 3, item 2 from item 3; the stock is kept at location 1.                 *)
(***************************************************************************)
Recipes ==
  {BomInput(Absent, 1, 2, 2 * Scale), BomInput(Absent, 1, 3, Scale),
   BomInput(Absent, 2, 3, Scale)}

Rewirings == {BomInput(id, Absent, 2, Absent) : id \in BomIds}

ComponentInputs ==
  [item_id : {2, 3}, location_id : {1}, to_location_id : {Absent},
   quantity : Quantities, partner_id : {Absent}, reference : {"ref"}]

ProduceInputs ==
  [item_id : ItemIds, location_id : {1}, to_location_id : {Absent},
   quantity : Quantities, partner_id : {Absent}, reference : {"ref"}]

NextProduction ==
  \/ ReceiveStock(ComponentInputs)
  \/ ProduceItem(ProduceInputs)
  \/ CreateBillOfMaterial(Recipes, MaxBomId)
  \/ UpdateBillOfMaterial(Rewirings)

SpecProduction == Init /\ [][NextProduction]_vars

(***************************************************************************)
(* Every operation but adjustStock, one request at a time.                 *)
(***************************************************************************)
ComponentDraws ==
  [item_id : {2}, location_id : {1}, to_location_id : {Absent},
   quantity : {Scale}, partner_id : {Absent}, reference : {"ref"}]

ComponentTransfers ==
  [item_id : {2}, location_id : {1}, to_location_id : {2},
   quantity : {Scale}, partner_id : {Absent}, reference : {"ref"}]

NextNoAdjust ==
  \/ ReceiveStock(ComponentInputs)
  \/ IssueStock(ComponentDraws)
  \/ TransferStock(ComponentTransfers)
  \/ ProduceItem(ProduceInputs)
  \/ CreateBillOfMaterial(Recipes, MaxBomId)
  \/ UpdateBillOfMaterial(Rewirings)
  \/ DeleteBillOfMaterial(BomIds)

SpecNoAdjust == Init /\ [][NextNoAdjust]_vars

(***************************************************************************)
(* Production in fractions: item 1 takes 1.5 of item 3 per unit, item 2    *)
(* takes 0.0001 of it; 0.5 or 2.5 units are produced at location 1 from    *)
(* receipts of 0.0001 and of a few whole units of item 3.                  *)
(***************************************************************************)
FractionalRecipes ==
  {BomInput(Absent, 1, 3, (3 * Scale) \div 2), BomInput(Absent, 2, 3, 1)}

FractionalReceipts ==
  [item_id : {3}, location_id : {1}, to_location_id : {Absent},
   quantity : {1, 2 * MaxQty * Scale}, partner_id : {Absent},
   reference : {"ref"}]

FractionalProductions ==
  [item_id : {1, 2}, location_id : {1}, to_location_id : {Absent},
   quantity : {Scale \div 2, (5 * Scale) \div 2}, partner_id : {Absent},
   reference : {"ref"}]

NextFractional ==
  \/ ReceiveStock(FractionalReceipts)
  \/ ProduceItem(FractionalProductions)
  \/ CreateBillOfMaterial(FractionalRecipes, MaxBomId)

SpecFractional == Init /\ [][NextFractional]_vars

(***************************************************************************)
(* Refused requests: every operation, one request at a time, on ids that   *)
(* are on file and ids that are not, on items with and without the         *)
(* manufactured flag and a bill of materials, with and without stock.      *)
(***************************************************************************)
CheckedReceipts ==
  [item_id : {1, MissingId}, location_id : {1, MissingId},
   to_location_id : {Absent}, quantity : {Scale},
   partner_id : PartnerInputs, reference : {"ref"}]

CheckedIssues ==
  [item_id : {1, MissingId}, location_id : {1, MissingId},
   to_location_id : {Absent}, quantity : {Scale},
   partner_id : PartnerInputs, reference : {"ref"}]

CheckedAdjusts ==
  [item_id : {1, MissingId}, location_id : {1, MissingId},
   to_location_id : {Absent}, quantity : {-Scale},
   partner_id : {Absent}, reference : {"ref"}]

CheckedTransfers ==
  [item_id : {1, MissingId}, location_id : {1, MissingId},
   to_location_id : LocationInputs, quantity : {Scale},
   partner_id : {Absent}, reference : {"ref"}]

CheckedProductions ==
  [item_id : ItemInputs, location_id : {1, MissingId},
   to_location_id : {Absent}, quantity : {Scale},
   partner_id : {Absent}, reference : {"ref"}]

CheckedRecipes ==
  {BomInput(Absent, 1, 3, Scale), BomInput(Absent, 3, 1, Scale),
   BomInput(Absent, 3, 2, Scale), BomInput(Absent, 1, 1, Scale),
   BomInput(Absent, 1, MissingId, Scale), BomInput(Absent, MissingId, 1, Scale)}

CheckedRewirings ==
  {BomInput(id, p, c, Absent) :
     id \in {1, MissingId}, p \in {Absent, 2}, c \in {Absent, 1, MissingId}}

NextChecks ==
  \/ ReceiveStock(CheckedReceipts)
  \/ IssueStock(CheckedIssues)
  \/ AdjustStock(CheckedAdjusts)
  \/ TransferStock(CheckedTransfers)
  \/ ProduceItem(CheckedProductions)
  \/ CreateBillOfMaterial(CheckedRecipes, MaxBomId)
  \/ UpdateBillOfMaterial(CheckedRewirings)

SpecChecks == Init /\ [][NextChecks]_vars

(***************************************************************************)
(* Every operation that writes to the database, one request at a time:     *)
(* the stock operations, the BOM operations and the deletion of items,     *)
(* locations, suppliers and customers.                                     *)
(***************************************************************************)
AppendReceipts ==
  [item_id : {1, 2}, location_id : {1}, to_location_id : {Absent},
   quantity : {Scale}, partner_id : {Absent, 1}, reference : {"ref"}]

AppendInputs ==
  [item_id : {1}, location_id : {1}, to_location_id : {Absent},
   quantity : {Scale}, partner_id : {Absent}, reference : {"ref"}]

AppendAdjusts ==
  [item_id : {1}, location_id : {1}, to_location_id : {Absent},
   quantity : {-Scale}, partner_id : {Absent}, reference : {"ref"}]

AppendTransfers ==
  [item_id : {1}, location_id : {1}, to_location_id : {2},
   quantity : {Scale}, partner_id : {Absent}, reference : {"ref"}]

AppendRecipes == {BomInput(Absent, 1, 2, Scale)}

AppendRewirings ==
  {BomInput(1, Absent, Absent, 2 * Scale), BomInput(1, Absent, 3, Absent)}

NextAppend ==
  \/ ReceiveStock(AppendReceipts)
  \/ IssueStock(AppendInputs)
  \/ AdjustStock(AppendAdjusts)
  \/ TransferStock(AppendTransfers)
  \/ ProduceItem(AppendInputs)
  \/ CreateBillOfMaterial(AppendRecipes, MaxBomId)
  \/ UpdateBillOfMaterial(AppendRewirings)
  \/ DeleteBillOfMaterial({1})
  \/ DeleteItem(ItemIds)
  \/ DeleteLocation(LocationIds)
  \/ DeleteSupplier(PartnerIds)
  \/ DeleteCustomer(PartnerIds)

SpecAppend == Init /\ [][NextAppend]_vars

(***************************************************************************)
(* Receipts and adjustments of one item: receipts at location 1 with and   *)
(* without a supplier, adjustments of any sign, zero included, at both     *)
(* locations.                                                              *)
(***************************************************************************)
CountedReceipts ==
  [item_id : {1}, location_id : {1}, to_location_id : {Absent},
   quantity : Quantities, partner_id : {Absent} \cup PartnerIds,
   reference : {"ref"}]

CountedAdjusts ==
  [item_id : {1}, location_id : LocationIds, to_location_id : {Absent},
   quantity : AdjustQuantities, partner_id : {Absent}, reference : {"ref"}]

NextCounts ==
  \/ ReceiveStock(CountedReceipts)
  \/ AdjustStock(CountedAdjusts)

SpecCounts == Init /\ [][NextCounts]_vars

(***************************************************************************)
(* Edges come and go next to a ledger that holds receipts: three recipes,  *)
(* two of them of one parent, and removals by ids on file and not on file. *)
(***************************************************************************)
RemovalReceipts ==
  [item_id : {2, 3}, location_id : {1}, to_location_id : {Absent},
   quantity : {Scale}, partner_id : {Absent}, reference : {"ref"}]

RemovalRecipes ==
  {BomInput(Absent, 1, 2, Scale), BomInput(Absent, 1, 3, Scale),
   BomInput(Absent, 2, 3, Scale)}

RemovalIds == {0} \cup BomIds \cup {MissingId}

NextRemoval ==
  \/ ReceiveStock(RemovalReceipts)
  \/ CreateBillOfMaterial(RemovalRecipes, MaxBomId)
  \/ DeleteBillOfMaterial(RemovalIds)

SpecRemoval == Init /\ [][NextRemoval]_vars

(***************************************************************************)
(* Stock reports: receipts of two items at location 1, issues and          *)
(* transfers of item 1, and reports with and without filters.              *)
(***************************************************************************)
LevelReceipts ==
  [item_id : {1, 2}, location_id : {1}, to_location_id : {Absent},
   quantity : Quantities, partner_id : {Absent}, reference : {"ref"}]

LevelIssues ==
  [item_id : {1}, location_id : {1}, to_location_id : {Absent},
   quantity : {Scale}, partner_id : {Absent}, reference : {"ref"}]

LevelTransfers ==
  [item_id : {1}, location_id : {1}, to_location_id : {2},
   quantity : {Scale}, partner_id : {Absent}, reference : {"ref"}]

LevelItemFilters == {Absent, 1, MissingId}

LevelLocationFilters == {Absent, 2}

NextLevels ==
  \/ ReceiveStock(LevelReceipts)
  \/ IssueStock(LevelIssues)
  \/ TransferStock(LevelTransfers)
  \/ GetStockLevels(LevelItemFilters, LevelLocationFilters)
  \/ GetDashboardMetrics

SpecLevels == Init /\ [][NextLevels]_vars

(***************************************************************************)
(* Movement queries: receipts of two items, transfers of item 1 (two rows  *)
(* of one date), the clock moving on in between, and queries with every    *)
(* combination of filters given and left out.                              *)
(***************************************************************************)
QueryReceipts ==
  [item_id : {1, 2}, location_id : {1}, to_location_id : {Absent},
   quantity : {Scale}, partner_id : {Absent}, reference : {"ref"}]

QueryTransfers ==
  [item_id : {1}, location_id : {1}, to_location_id : {2},
   quantity : {Scale}, partner_id : {Absent}, reference : {"ref"}]

MovementQueries ==
  [item_id : {Absent, 1}, location_id : {Absent, 2},
   movement_type : {"any", "Receipt"}, start_date : {Absent, MaxClock},
   end_date : {Absent, 0}]

NextMovements ==
  \/ ReceiveStock(QueryReceipts)
  \/ TransferStock(QueryTransfers)
  \/ GetStockMovements(MovementQueries)
  \/ Tick

SpecMovements == Init /\ [][NextMovements]_vars

(***************************************************************************)
(* Larger graphs: a fourth item is created, then items 1, 2 and 3 are made *)
(* components of one another in a ring, item 4 a component of items 1 and  *)
(* 3, and the component of an edge is changed to item 1.                   *)
(***************************************************************************)
RingRecipes ==
  {BomInput(Absent, 1, 2, Scale), BomInput(Absent, 2, 3, Scale),
   BomInput(Absent, 3, 1, Scale), BomInput(Absent, 1, 4, Scale),
   BomInput(Absent, 4, 3, Scale)}

RingRewirings == {BomInput(id, Absent, 1, Absent) : id \in 1..MaxEdgeId}

NextRing ==
  \/ CreateItem({FALSE})
  \/ CreateBillOfMaterial(RingRecipes, MaxEdgeId)
  \/ UpdateBillOfMaterial(RingRewirings)

SpecRing == Init /\ [][NextRing]_vars

(***************************************************************************)
(* Requests in flight together.  A handler runs as a chain of awaited      *)
(* database statements with no transaction around them, so between two of  *)
(* its statements any statement of another request may run.  Each action   *)
(* below is one statement (with the synchronous code up to the next        *)
(* await); the reads of the master tables, which nothing here changes, are *)
(* taken together with the statement that follows them.                    *)
(***************************************************************************)
Return(p, op, r) ==
  /\ procs' = [procs EXCEPT ![p] = Idle]
  /\ last' = Call(op, r)

\* issueStock: the existence checks and the aggregate read
IssueRead(p, inputs) ==
  \E inp \in inputs :
    LET c == IssueCheck(inp, ledger)
    IN /\ procs[p].pc = "idle"
       /\ Len(ledger) < MaxMoves
       /\ IF c.outcome = "ok"
          THEN /\ procs' = [procs EXCEPT ![p] = [pc |-> "issueInsert", inp |-> inp]]
               /\ UNCHANGED last
          ELSE Return(p, "issueStock", c)
       /\ UNCHANGED <<master, boms, nextBomId, ledger, clock>>

\* issueStock: the insert
IssueInsert(p) ==
  /\ procs[p].pc = "issueInsert"
  /\ LET row == IssueRow(procs[p].inp, clock)
     IN /\ ledger' = Append(ledger, row)
        /\ Return(p, "issueStock", Result("ok", <<row>>, 0, 0, <<>>))
  /\ UNCHANGED <<master, boms, nextBomId, clock>>

\* transferStock: the existence checks, the aggregate read, new Date()
TransferRead(p, inputs) ==
  \E inp \in inputs :
    LET c == TransferCheck(inp, ledger)
    IN /\ procs[p].pc = "idle"
       /\ Len(ledger) < MaxMoves
       /\ IF c.outcome = "ok"
          THEN /\ procs' = [procs EXCEPT ![p] =
                              [pc |-> "transferOut", inp |-> inp,
                               currentDate |-> clock]]
               /\ UNCHANGED last
          ELSE Return(p, "transferStock", c)
       /\ UNCHANGED <<master, boms, nextBomId, ledger, clock>>

\* transferStock: the first insert
TransferOutInsert(p) ==
  /\ procs[p].pc = "transferOut"
  /\ ledger' = Append(ledger, TransferOutRow(procs[p].inp, procs[p].currentDate))
  /\ procs' = [procs EXCEPT ![p].pc = "transferIn"]
  /\ UNCHANGED <<master, boms, nextBomId, clock, last>>

\* transferStock: the second insert
TransferInInsert(p) ==
  /\ procs[p].pc = "transferIn"
  /\ LET out == TransferOutRow(procs[p].inp, procs[p].currentDate)
         in == TransferInRow(procs[p].inp, procs[p].currentDate)
     IN /\ ledger' = Append(ledger, in)
        /\ Return(p, "transferStock", Result("ok", <<out, in>>, 0, 0, <<>>))
  /\ UNCHANGED <<master, boms, nextBomId, clock>>

\* produceItem: the item checks and the BOM read
ProduceBomRead(p, inputs) ==
  \E inp \in inputs :
    \E bomComponents \in Orders(BomComponents(boms, inp.item_id)) :
      LET pre == ProduceItemCheck(inp, bomComponents)
      IN /\ procs[p].pc = "idle"
         /\ Len(ledger) < MaxMoves
         /\ IF pre = "ok"
            THEN /\ procs' = [procs EXCEPT ![p] =
                                [pc |-> "produceRead", inp |-> inp,
                                 requiredComponents |->
                                   RequiredComponents(bomComponents, inp.quantity),
                                 stockLevels |-> <<>>]]
                 /\ UNCHANGED last
            ELSE Return(p, "produceItem", Rejected(pre))
         /\ UNCHANGED <<master, boms, nextBomId, ledger, clock>>

\* produceItem: the aggregate read of the next component; after the last one
\* the validation and new Date()
ProduceStockRead(p) ==
  /\ procs[p].pc = "produceRead"
  /\ LET me == procs[p]
         required == me.requiredComponents[Len(me.stockLevels) + 1]
         stockLevels ==
           Append(me.stockLevels,
                  [item_id |-> required.item_id,
                   current_quantity |->
                     CurrentQuantity(ledger, required.item_id, me.inp.location_id)])
         insufficientStock == InsufficientStock(me.requiredComponents, stockLevels)
     IN IF Len(stockLevels) < Len(me.requiredComponents)
        THEN /\ procs' = [procs EXCEPT ![p].stockLevels = stockLevels]
             /\ UNCHANGED last
        ELSE IF Len(insufficientStock) > 0
        THEN Return(p, "produceItem",
                    Result("InsufficientComponentStock", <<>>, 0, 0,
                           insufficientStock))
        ELSE /\ procs' = [procs EXCEPT ![p] =
                            [pc |-> "produceInsert", inp |-> me.inp,
                             rows |-> ProduceRows(me.inp, me.requiredComponents,
                                                  clock),
                             done |-> 0]]
             /\ UNCHANGED last
  /\ UNCHANGED <<master, boms, nextBomId, ledger, clock>>

\* produceItem: the next insert, the Production row first
ProduceInsert(p) ==
  /\ procs[p].pc = "produceInsert"
  /\ LET me == procs[p]
     IN /\ ledger' = Append(ledger, me.rows[me.done + 1])
        /\ IF me.done + 1 < Len(me.rows)
           THEN /\ procs' = [procs EXCEPT ![p].done = me.done + 1]
                /\ UNCHANGED last
           ELSE Return(p, "produceItem", Result("ok", me.rows, 0, 0, <<>>))
  /\ UNCHANGED <<master, boms, nextBomId, clock>>

\* an insert the database refuses: the handler rethrows, and what it had
\* inserted before stays
InsertFails(p) ==
  /\ procs[p].pc \in {"issueInsert", "transferOut", "transferIn", "produceInsert"}
  /\ Return(p, procs[p].pc, Rejected("StorageError"))
  /\ UNCHANGED <<master, boms, nextBomId, ledger, clock>>

ConcurrentInputs ==
  [item_id : {1, 2}, location_id : {1}, to_location_id : {Absent},
   quantity : {Scale}, partner_id : {Absent}, reference : {"ref"}]

ConcurrentTransfers ==
  [item_id : {2}, location_id : {1}, to_location_id : {2},
   quantity : {Scale}, partner_id : {Absent}, reference : {"ref"}]

ConcurrentBoms == {BomInput(Absent, 1, 2, Scale)}

NextConcurrent ==
  \/ ReceiveStock(ConcurrentInputs)
  \/ CreateBillOfMaterial(ConcurrentBoms, MaxBomId)
  \/ \E p \in Procs :
       \/ IssueRead(p, ConcurrentInputs)
       \/ IssueInsert(p)
       \/ TransferRead(p, ConcurrentTransfers)
       \/ TransferOutInsert(p)
       \/ TransferInInsert(p)
       \/ ProduceBomRead(p, ConcurrentInputs)
       \/ ProduceStockRead(p)
       \/ ProduceInsert(p)
       \/ InsertFails(p)

SpecConcurrent == Init /\ [][NextConcurrent]_vars

(***************************************************************************)
(* Two BOM requests in flight together.  A handler is a chain of awaited   *)
(* statements without a transaction, so the statements of two requests     *)
(* interleave.  A request keeps its input and the edges on file when the   *)
(* first of the two began; it is served once.                              *)
(***************************************************************************)
\* the edges on file when the first request in flight began
EditStart(p) ==
  IF \E q \in Procs : procs[q].pc # "idle"
  THEN procs[CHOOSE q \in Procs : procs[q].pc # "idle"].start
  ELSE boms

EditDone(p, op, outcome) ==
  /\ procs' = [procs EXCEPT ![p] =
                 [pc |-> "bomDone", op |-> op, inp |-> procs[p].inp,
                  start |-> procs[p].start, outcome |-> outcome]]
  /\ last' = Call(op, Rejected(outcome))

\* createBillOfMaterial: the two item reads and the self-reference test
CreateItemsRead(p, inputs) ==
  \E inp \in inputs :
    /\ procs[p].pc = "idle"
    /\ nextBomId < MaxBomId
    /\ LET outcome ==
             IF inp.parent_item_id \notin DOMAIN items THEN "ParentNotFound"
             ELSE IF inp.component_item_id \notin DOMAIN items
             THEN "ComponentNotFound"
             ELSE IF inp.parent_item_id = inp.component_item_id
             THEN "SelfReference"
             ELSE "ok"
           me == [pc |-> "createCircular", op |-> "createBillOfMaterial",
                  inp |-> inp, start |-> EditStart(p)]
       IN IF outcome = "ok"
          THEN procs' = [procs EXCEPT ![p] = me] /\ UNCHANGED last
          ELSE /\ procs' = [procs EXCEPT ![p] =
                              [me EXCEPT !.pc = "bomDone"] @@ [outcome |-> outcome]]
               /\ last' = Call("createBillOfMaterial", Rejected(outcome))
    /\ UNCHANGED <<master, boms, nextBomId, ledger, clock>>

\* createBillOfMaterial: the query for the reverse edge
CreateCircularRead(p) ==
  /\ procs[p].pc = "createCircular"
  /\ IF CreateCircular(boms, procs[p].inp.parent_item_id,
                       procs[p].inp.component_item_id)
     THEN EditDone(p, "createBillOfMaterial", "CircularDependency")
     ELSE procs' = [procs EXCEPT ![p].pc = "createDuplicate"] /\ UNCHANGED last
  /\ UNCHANGED <<master, boms, nextBomId, ledger, clock>>

\* createBillOfMaterial: the query for the same edge
CreateDuplicateRead(p) ==
  /\ procs[p].pc = "createDuplicate"
  /\ IF CreateDuplicate(boms, procs[p].inp.parent_item_id,
                        procs[p].inp.component_item_id)
     THEN EditDone(p, "createBillOfMaterial", "DuplicateEdge")
     ELSE procs' = [procs EXCEPT ![p].pc = "createInsert"] /\ UNCHANGED last
  /\ UNCHANGED <<master, boms, nextBomId, ledger, clock>>

\* createBillOfMaterial: the insert
CreateInsert(p) ==
  /\ procs[p].pc = "createInsert"
  /\ boms' = boms \cup {Bom(nextBomId, procs[p].inp.parent_item_id,
                             procs[p].inp.component_item_id,
                             procs[p].inp.quantity)}
  /\ nextBomId' = nextBomId + 1
  /\ EditDone(p, "createBillOfMaterial", "ok")
  /\ UNCHANGED <<master, ledger, clock>>

\* updateBillOfMaterial: the read of the edge, updateValues and the
\* self-reference test
UpdateRead(p, inputs) ==
  \E inp \in inputs :
    /\ procs[p].pc = "idle"
    /\ LET found == {b \in boms : b.id = inp.id}
           me == [pc |-> "updateSearch", op |-> "updateBillOfMaterial",
                  inp |-> inp, start |-> EditStart(p)]
           finish(outcome) ==
             /\ procs' = [procs EXCEPT ![p] =
                            [me EXCEPT !.pc = "bomDone"] @@ [outcome |-> outcome]]
             /\ last' = Call("updateBillOfMaterial", Rejected(outcome))
       IN IF found = {} THEN finish("BomNotFound")
          ELSE LET updateValues == UpdateValues(inp, CHOOSE b \in found : TRUE)
                   given == inp.parent_item_id # Absent
                            \/ inp.component_item_id # Absent
               IN IF given /\ updateValues.parent_item_id
                              = updateValues.component_item_id
                  THEN finish("SelfReference")
                  ELSE /\ procs' = [procs EXCEPT ![p] =
                                      [me EXCEPT !.pc = IF given THEN "updateSearch"
                                                        ELSE "updateWrite"]
                                      @@ [updateValues |-> updateValues]]
                       /\ UNCHANGED last
    /\ UNCHANGED <<master, boms, nextBomId, ledger, clock>>

\* updateBillOfMaterial: the cycle search and the read of the items
UpdateSearch(p) ==
  /\ procs[p].pc = "updateSearch"
  /\ \E a \in CheckCircularDependency(boms,
                 procs[p].updateValues.component_item_id,
                 procs[p].updateValues.parent_item_id, procs[p].inp.id, {}) :
       IF a = "true"
       THEN EditDone(p, "updateBillOfMaterial", "CircularDependency")
       ELSE IF a = "diverge"
       THEN procs' = [procs EXCEPT ![p].pc = "updateHang"] /\ UNCHANGED last
       ELSE IF ~ UpdateItemsExist(procs[p].inp)
       THEN EditDone(p, "updateBillOfMaterial", "ItemNotFound")
       ELSE procs' = [procs EXCEPT ![p].pc = "updateWrite"] /\ UNCHANGED last
  /\ UNCHANGED <<master, boms, nextBomId, ledger, clock>>

\* updateBillOfMaterial: update ... set updateValues where id = input.id
UpdateWrite(p) ==
  /\ procs[p].pc = "updateWrite"
  /\ boms' = {IF b.id = procs[p].inp.id THEN procs[p].updateValues ELSE b :
               b \in boms}
  /\ EditDone(p, "updateBillOfMaterial", "ok")
  /\ UNCHANGED <<master, nextBomId, ledger, clock>>

EditSeeds == {BomInput(Absent, 1, 3, Scale)}

EditCreates == {BomInput(Absent, 1, 2, Scale), BomInput(Absent, 2, 1, Scale)}

EditUpdates ==
  {BomInput(1, Absent, Absent, 2 * Scale), BomInput(1, 2, Absent, Absent)}

NextEdits ==
  \/ (\A p \in Procs : procs[p].pc = "idle")
     /\ CreateBillOfMaterial(EditSeeds, MaxBomId)
  \/ \E p \in Procs :
       \/ CreateItemsRead(p, EditCreates)
       \/ CreateCircularRead(p)
       \/ CreateDuplicateRead(p)
       \/ CreateInsert(p)
       \/ UpdateRead(p, EditUpdates)
       \/ UpdateSearch(p)
       \/ UpdateWrite(p)

SpecEdits == Init /\ [][NextEdits]_vars

(***************************************************************************)
(* Partial updates: three edges that may close the ring 1 -> 2 -> 3 -> 1,  *)
(* and updates that give any subset of parent, component and quantity.     *)
(***************************************************************************)
PartialRecipes ==
  {BomInput(Absent, 1, 2, Scale), BomInput(Absent, 2, 3, Scale),
   BomInput(Absent, 3, 1, Scale)}

PartialUpdates ==
  {BomInput(id, p, c, q) :
     id \in {1, 2, MissingId}, p \in {Absent, 1, MissingId}, c \in {Absent, 3},
     q \in {Absent, 2 * Scale}}

NextPartial ==
  \/ CreateBillOfMaterial(PartialRecipes, MaxBomId)
  \/ UpdateBillOfMaterial(PartialUpdates)

SpecPartial == Init /\ [][NextPartial]_vars

(***************************************************************************)
(* Production with and without a reference, on different dates: items 2    *)
(* and 3 are received at location 1, items 1 and 2 are produced there with *)
(* no reference, an empty one or a text.                                   *)
(***************************************************************************)
CorrelationProductions ==
  [item_id : {1, 2}, location_id : {1}, to_location_id : {Absent},
   quantity : {Scale}, partner_id : {Absent}, reference : {"null", "", "ref"}]

CorrelationReceipts ==
  [item_id : {2, 3}, location_id : {1}, to_location_id : {Absent},
   quantity : {2 * Scale}, partner_id : {Absent}, reference : {"ref"}]

NextCorrelation ==
  \/ ReceiveStock(CorrelationReceipts)
  \/ ProduceItem(CorrelationProductions)
  \/ CreateBillOfMaterial(Recipes, MaxBomId)
  \/ Tick

SpecCorrelation == Init /\ [][NextCorrelation]_vars

(***************************************************************************)
(* The whole program: every operation on every input of the bounded sets,  *)
(* served one at a time or in flight together.                             *)
(***************************************************************************)
AdjustInputs ==
  [item_id : ItemInputs, location_id : LocationInputs,
   to_location_id : {Absent}, quantity : AdjustQuantities,
   partner_id : {Absent}, reference : References]

AllTransfers ==
  [item_id : ItemInputs, location_id : LocationInputs,
   to_location_id : LocationInputs, quantity : Quantities,
   partner_id : {Absent}, reference : References]

Next ==
  \/ ReceiveStock(StockInputs)
  \/ IssueStock(StockInputs)
  \/ AdjustStock(AdjustInputs)
  \/ TransferStock(AllTransfers)
  \/ ProduceItem(StockInputs)
  \/ CreateBillOfMaterial(CreateInputs, MaxBomId)
  \/ UpdateBillOfMaterial(UpdateInputs)
  \/ DeleteBillOfMaterial(BomIds \cup {MissingId})
  \/ CreateItem(BOOLEAN)
  \/ DeleteItem(ItemInputs)
  \/ DeleteLocation(LocationInputs)
  \/ DeleteSupplier(PartnerIds \cup {MissingId})
  \/ DeleteCustomer(PartnerIds \cup {MissingId})
  \/ Tick
  \/ GetStockLevels({Absent} \cup ItemInputs, {Absent} \cup LocationInputs)
  \/ GetStockMovements(MovementQueries)
  \/ GetDashboardMetrics
  \/ \E p \in Procs :
       \/ CreateItemsRead(p, CreateInputs)
       \/ CreateCircularRead(p)
       \/ CreateDuplicateRead(p)
       \/ CreateInsert(p)
       \/ UpdateRead(p, UpdateInputs)
       \/ UpdateSearch(p)
       \/ UpdateWrite(p)
       \/ IssueRead(p, StockInputs)
       \/ IssueInsert(p)
       \/ TransferRead(p, AllTransfers)
       \/ TransferOutInsert(p)
       \/ TransferInInsert(p)
       \/ ProduceBomRead(p, StockInputs)
       \/ ProduceStockRead(p)
       \/ ProduceInsert(p)
       \/ InsertFails(p)

Spec == Init /\ [][Next]_vars

(***************************************************************************)
(* Properties.                                                             *)
(***************************************************************************)
\* the sum of the quantities of the rows of one (item, location) pair
RECURSIVE SumTo(_, _, _, _)
SumTo(led, n, i, l) ==
  IF n = 0 THEN 0
  ELSE SumTo(led, n - 1, i, l)
       + (IF led[n].item_id = i /\ led[n].location_id = l
          THEN led[n].quantity ELSE 0)

Stock(led, i, l) == SumTo(led, Len(led), i, l)

Pairs == ItemIds \X LocationIds

\* C1 -- Non-negative stock: from the empty ledger, after any series of
\* receive, issue, transfer and produce calls served one at a time, with any
\* BOM create, update and delete calls in between and no adjustment, every
\* (item, location) pair has a current quantity >= 0.
C1_NonNegativeStock == ~ \E pr \in Pairs : Stock(ledger, pr[1], pr[2]) < 0

Rows(led, type) == {k \in 1..Len(led) : led[k].movement_type = type}

\* C2 -- No oversell under concurrency: whatever the interleaving of issues,
\* transfers and productions drawing on one (item, location) pair, the draws
\* that succeed never total more than what was available, so no pair's
\* current quantity is ever negative.
C2_NoOversell == \A pr \in Pairs : Stock(ledger, pr[1], pr[2]) >= 0

\* C3 -- Transfer atomicity: in every state a reader can see, the ledger holds
\* the Transfer Out row of a transfer if and only if it holds the matching
\* Transfer In row (same item, opposite quantity, same date and reference).
TransferMatch(out, in) ==
  /\ out.item_id = in.item_id
  /\ out.quantity = -in.quantity
  /\ out.date = in.date
  /\ out.reference = in.reference

C3_TransferAtomic ==
  /\ \A k \in Rows(ledger, "Transfer Out") :
       Cardinality({j \in Rows(ledger, "Transfer In") :
                      TransferMatch(ledger[k], ledger[j])})
       = Cardinality({j \in Rows(ledger, "Transfer Out") :
                        ledger[j] = ledger[k]})
  /\ \A k \in Rows(ledger, "Transfer In") :
       \E j \in Rows(ledger, "Transfer Out") : TransferMatch(ledger[j], ledger[k])

\* C4 -- Produce atomicity: in every state a reader can see, the ledger holds
\* the Production row of a produce call if and only if it holds the
\* Consumption rows of that call (same location and date, referring to the
\* produced item).
ConsumptionOf(prod, cons) ==
  /\ cons.reference.tag = "production"
  /\ cons.reference.id = prod.item_id
  /\ cons.location_id = prod.location_id
  /\ cons.date = prod.date

C4_ProduceAtomic ==
  /\ \A k \in Rows(ledger, "Production") :
       \E j \in Rows(ledger, "Consumption") : ConsumptionOf(ledger[k], ledger[j])
  /\ \A j \in Rows(ledger, "Consumption") :
       \E k \in Rows(ledger, "Production") : ConsumptionOf(ledger[k], ledger[j])

\* the items reachable from `from` along component edges in at most n steps
RECURSIVE Reach(_, _, _)
Reach(bs, from, n) ==
  IF n = 0 THEN from
  ELSE Reach(bs, from \cup {b.component_item_id : b \in {e \in bs : e.parent_item_id \in from}},
             n - 1)

ComponentsOf(bs, i) ==
  Reach(bs, {b.component_item_id : b \in {e \in bs : e.parent_item_id = i}},
        MaxItemId)

\* C5 -- BOM acyclicity: no sequence of create, update and delete calls leaves
\* a path from an item back to itself through component edges.
C5_BomAcyclic == \A i \in ItemIds : i \notin ComponentsOf(boms, i)

\* C6 -- BOM edge uniqueness: after any sequence of create, update and delete
\* calls there is at most one edge per (parent, component) pair.
C6_UniqueEdges ==
  \A a \in boms, b \in boms :
    (a.parent_item_id = b.parent_item_id
     /\ a.component_item_id = b.component_item_id) => a = b

\* C7 -- Issue guard: an issue of q on (item, location) succeeds exactly when
\* the pair's current quantity is at least q, and then appends one Issue row
\* of -q; otherwise it fails with InsufficientStock reporting the available
\* and the requested quantity, and no pair's quantity changes.
IssueGuardStep(inp) ==
  LET avail == Stock(ledger, inp.item_id, inp.location_id)
  IN IF avail >= inp.quantity
     THEN /\ last'.outcome = "ok"
          /\ Len(ledger') = Len(ledger) + 1
          /\ SubSeq(ledger', 1, Len(ledger)) = ledger
          /\ LET m == ledger'[Len(ledger')]
             IN /\ m.movement_type = "Issue"
                /\ m.item_id = inp.item_id
                /\ m.location_id = inp.location_id
                /\ m.quantity = -inp.quantity
          /\ Stock(ledger', inp.item_id, inp.location_id) = avail - inp.quantity
     ELSE /\ last'.outcome = "InsufficientStock"
          /\ last'.available = avail
          /\ last'.requested = inp.quantity
          /\ ledger' = ledger
          /\ \A pr \in Pairs : Stock(ledger', pr[1], pr[2]) = Stock(ledger, pr[1], pr[2])

C7_IssueGuard ==
  [][last'.op = "issueStock" =>
       \A inp \in LedgerInputs :
         Serve("issueStock", IssueResult(inp, ledger, clock))
         => IssueGuardStep(inp)]_vars

\* an issue of exactly the available quantity went through, and one of more
\* than the available quantity (also on a pair with no row) was refused
C7_Witness ==
  /\ last.op = "issueStock"
  /\ last.outcome = "InsufficientStock"
  /\ last.available = 0
  /\ \E k \in 1..Len(ledger) :
       /\ ledger[k].movement_type = "Issue"
       /\ Stock(SubSeq(ledger, 1, k), ledger[k].item_id, ledger[k].location_id) = 0

\* C8 -- Transfer balance: a successful transfer of q of item i from L1 to
\* L2 lowers the quantity of (i, L1) by q, raises that of (i, L2) by q, leaves
\* every other pair as it was, and appends a Transfer Out of -q at L1 and a
\* Transfer In of +q at L2 with the same event date and the same reference.
TransferBalanceStep(inp) ==
  LET n == Len(ledger)
      out == ledger'[n + 1]
      in == ledger'[n + 2]
  IN /\ Len(ledger') = n + 2
     /\ SubSeq(ledger', 1, n) = ledger
     /\ \A pr \in Pairs :
          Stock(ledger', pr[1], pr[2]) =
            Stock(ledger, pr[1], pr[2])
            + (IF pr = <<inp.item_id, inp.location_id>> THEN -inp.quantity
               ELSE IF pr = <<inp.item_id, inp.to_location_id>> THEN inp.quantity
               ELSE 0)
     /\ out.movement_type = "Transfer Out" /\ in.movement_type = "Transfer In"
     /\ out.item_id = inp.item_id /\ in.item_id = inp.item_id
     /\ out.location_id = inp.location_id /\ in.location_id = inp.to_location_id
     /\ out.quantity = -inp.quantity /\ in.quantity = inp.quantity
     /\ out.date = in.date
     /\ out.reference = in.reference
     /\ last'.rows = <<out, in>>

C8_TransferBalance ==
  [][(last'.op = "transferStock" /\ last'.outcome = "ok") =>
       \A inp \in TransferInputs :
         Serve("transferStock", TransferResult(inp, ledger, clock))
         => TransferBalanceStep(inp)]_vars

\* a transfer went through after the clock had moved, while another pair
\* held stock
C8_Witness ==
  /\ last.op = "transferStock"
  /\ last.outcome = "ok"
  /\ last.rows[1].date > 0
  /\ \E pr \in Pairs :
       /\ pr[1] # last.rows[1].item_id
       /\ Stock(ledger, pr[1], pr[2]) > 0

DirectEdges(bs, item) == {b \in bs : b.parent_item_id = item}

\* the step is a produceItem call with this input
IsProduce(inp) ==
  \E bomComponents \in Orders(BomComponents(boms, inp.item_id)) :
    Serve("produceItem", ProduceResult(inp, ledger, bomComponents, clock))

\* C9 -- Produce result: a successful produce of Q of item P at L appends
\* exactly 1 + n rows, n the number of direct BOM edges of P: first the
\* Production row of +Q for P at L, then one Consumption row at L per direct
\* component edge; the quantity of every pair whose item is neither P nor a
\* direct component of P, and of every pair at another location, is as before.
ProduceResultStep(inp) ==
  LET edges == DirectEdges(boms, inp.item_id)
      n == Len(ledger)
      new == SubSeq(ledger', n + 1, Len(ledger'))
      direct == {b.component_item_id : b \in edges}
  IN /\ Len(new) = 1 + Cardinality(edges)
     /\ SubSeq(ledger', 1, n) = ledger
     /\ last'.rows = new
     /\ new[1].movement_type = "Production"
     /\ new[1].item_id = inp.item_id
     /\ new[1].location_id = inp.location_id
     /\ new[1].quantity = inp.quantity
     /\ \A k \in 2..Len(new) :
          /\ new[k].movement_type = "Consumption"
          /\ new[k].location_id = inp.location_id
     /\ \A c \in ItemIds :
          Cardinality({k \in 2..Len(new) : new[k].item_id = c})
          = Cardinality({b \in edges : b.component_item_id = c})
     /\ \A pr \in Pairs :
          (pr[2] # inp.location_id \/ pr[1] \notin direct \cup {inp.item_id})
          => Stock(ledger', pr[1], pr[2]) = Stock(ledger, pr[1], pr[2])
     /\ Stock(ledger', inp.item_id, inp.location_id)
        = Stock(ledger, inp.item_id, inp.location_id) + inp.quantity

C9_ProduceResult ==
  [][(last'.op = "produceItem" /\ last'.outcome = "ok") =>
       \A inp \in ProduceInputs : IsProduce(inp) => ProduceResultStep(inp)]_vars

\* item 1 was produced from item 2 while item 2 had a component of its own,
\* item 3, in stock at the same location
C9_Witness ==
  /\ last.op = "produceItem"
  /\ last.outcome = "ok"
  /\ Len(last.rows) >= 2
  /\ \E b \in boms :
       /\ b.parent_item_id = last.rows[2].item_id
       /\ b.component_item_id \notin {r.item_id : r \in {last.rows[k] : k \in 1..Len(last.rows)}}
       /\ Stock(ledger, b.component_item_id, last.rows[1].location_id) > 0

\* C10 -- Produce shortage: produce needs, for every direct component edge,
\* a current quantity of the component at the location of at least
\* multiplier * quantity; when some edges are short it fails with one
\* InsufficientComponentStock error that lists every short one with the
\* required quantity (in steps of 1/Scale^2) and the available quantity, and
\* appends no row at all.
ProduceShortageStep(inp) ==
  LET edges == DirectEdges(boms, inp.item_id)
      have(b) == Stock(ledger, b.component_item_id, inp.location_id)
      need(b) == b.quantity * inp.quantity
      shortEdges == {b \in edges : have(b) * Scale < need(b)}
      listed == {last'.short[k] : k \in 1..Len(last'.short)}
  IN IF shortEdges = {}
     THEN last'.outcome = "ok"
     ELSE /\ last'.outcome = "InsufficientComponentStock"
          /\ ledger' = ledger
          /\ last'.rows = <<>>
          /\ Len(last'.short) = Cardinality(shortEdges)
          /\ listed = {[item_id |-> b.component_item_id, need |-> need(b),
                        have |-> have(b)] : b \in shortEdges}

C10_ProduceShortage ==
  [][last'.op = "produceItem" =>
       \A inp \in ProduceInputs :
         (/\ inp.item_id \in DOMAIN items
          /\ items[inp.item_id].is_manufactured
          /\ DirectEdges(boms, inp.item_id) # {}
          /\ IsProduce(inp)) => ProduceShortageStep(inp)]_vars

\* a produce call was refused for two components at once, one of them in
\* stock but not enough of it
C10_Witness ==
  /\ last.op = "produceItem"
  /\ last.outcome = "InsufficientComponentStock"
  /\ Len(last.short) = 2
  /\ last.short[1].item_id # last.short[2].item_id
  /\ \E k \in 1..2 : last.short[k].have > 0
  /\ ledger # <<>>

\* the step is a produceItem call with this input that went through
IsProduced(inp) ==
  \E bomComponents \in Orders(BomComponents(boms, inp.item_id)) :
    LET r == ProduceResult(inp, ledger, bomComponents, clock)
    IN r.outcome = "ok" /\ Serve("produceItem", r)

\* C11 -- Production consumption law: a successful produce of Q records, for
\* every direct component edge with multiplier m, a Consumption row whose
\* quantity is exactly -(m x Q), for Q and m of up to 4 fractional digits, and
\* that is the amount the available quantity was found sufficient for.  (A
\* row holds steps of 1/Scale, the product m x Q steps of 1/Scale^2.)
ConsumptionLawStep(inp) ==
  LET edges == DirectEdges(boms, inp.item_id)
      n == Len(ledger)
      consumed == {ledger'[k] : k \in (n + 2)..Len(ledger')}
  IN /\ \A b \in edges :
          /\ \E row \in consumed :
               /\ row.item_id = b.component_item_id
               /\ row.quantity * Scale = -(b.quantity * inp.quantity)
          /\ Stock(ledger, b.component_item_id, inp.location_id) * Scale
             >= b.quantity * inp.quantity
     /\ \A row \in consumed :
          \E b \in edges :
            /\ row.item_id = b.component_item_id
            /\ row.quantity * Scale = -(b.quantity * inp.quantity)

C11_ConsumptionLaw ==
  [][(last'.op = "produceItem" /\ last'.outcome = "ok") =>
       \A inp \in FractionalProductions :
         IsProduced(inp) => ConsumptionLawStep(inp)]_vars

\* the outcomes that are refusals for a business reason
NotFoundErrors ==
  {"ItemNotFound", "LocationNotFound", "SupplierNotFound", "CustomerNotFound",
   "ParentNotFound", "ComponentNotFound", "BomNotFound"}

BusinessErrors ==
  NotFoundErrors \cup
  {"InsufficientStock", "InsufficientComponentStock", "SameLocation",
   "SelfReference", "DuplicateEdge", "CircularDependency", "NotManufactured",
   "NoBom"}

\* C12 -- Validation before mutation: a receive, issue, adjust, transfer,
\* produce, BOM create or BOM update call that is refused with a business
\* error leaves the ledger and the set of BOM edges exactly as they were.
C12_ValidationBeforeMutation ==
  [][last'.outcome \in BusinessErrors => (ledger' = ledger /\ boms' = boms)]_vars

\* a rewiring was refused for closing a cycle while the ledger held rows
C12_Witness ==
  /\ last.op = "updateBillOfMaterial"
  /\ last.outcome = "CircularDependency"
  /\ ledger # <<>>
  /\ Cardinality(boms) >= 2

\* C13 -- Append-only ledger: every operation either leaves the stock
\* movements as they are or adds movements after them; a movement, once
\* written, keeps its item, location, kind, quantity, date and reference and
\* is never removed.
C13_AppendOnly ==
  [][/\ Len(ledger') >= Len(ledger)
     /\ SubSeq(ledger', 1, Len(ledger)) = ledger]_vars

\* the deletion of an item was refused because of its movements, after
\* several operations had written to the ledger
C13_Witness ==
  /\ last.op = "deleteItem"
  /\ last.outcome = "HasMovements"
  /\ Cardinality({ledger[k].movement_type : k \in 1..Len(ledger)}) >= 3

\* the NotFound outcomes that name something the input refers to and that is
\* not on file
MissingEntities(inp, partners) ==
  {o \in {"ItemNotFound"} : inp.item_id \notin DOMAIN items}
  \cup {o \in {"LocationNotFound"} :
          \/ inp.location_id \notin locations
          \/ (inp.to_location_id # Absent /\ inp.to_location_id \notin locations)}
  \cup {o \in {"SupplierNotFound", "CustomerNotFound"} :
          inp.partner_id # Absent /\ inp.partner_id \notin partners}

\* C14 -- NotFound: a receive, issue, adjust, transfer or produce call on an
\* item id or location id that is not on file (or, for receive and issue,
\* with a supplier or customer id given that is not on file) is refused
\* with a NotFound error naming a missing entity, whatever the stock, and
\* appends no movement.
NotFoundStep(inp, partners) ==
  MissingEntities(inp, partners) # {} =>
    /\ last'.outcome \in MissingEntities(inp, partners)
    /\ ledger' = ledger

C14_NotFound ==
  [][/\ last'.op = "receiveStock" =>
          \A inp \in CheckedReceipts :
            Serve("receiveStock", ReceiveResult(inp, clock))
            => NotFoundStep(inp, suppliers)
     /\ last'.op = "issueStock" =>
          \A inp \in CheckedIssues :
            Serve("issueStock", IssueResult(inp, ledger, clock))
            => NotFoundStep(inp, customers)
     /\ last'.op = "adjustStock" =>
          \A inp \in CheckedAdjusts :
            Serve("adjustStock", AdjustResult(inp, clock))
            => NotFoundStep(inp, {})
     /\ last'.op = "transferStock" =>
          \A inp \in CheckedTransfers :
            Serve("transferStock", TransferResult(inp, ledger, clock))
            => NotFoundStep(inp, {})
     /\ last'.op = "produceItem" =>
          \A inp \in CheckedProductions :
            IsProduce(inp) => NotFoundStep(inp, {})]_vars

\* the step is an updateBillOfMaterial call with this input
IsUpdate(inp) ==
  \E outcome \in UpdateOutcomes(inp, boms) :
    /\ boms' = IF outcome = "ok" THEN UpdatedBoms(inp, boms) ELSE boms
    /\ last' = Call("updateBillOfMaterial", Rejected(outcome))

\* the input names an edge on file and gives it a parent or a component, and
\* the two ends it would then have are different items
IsRewiring(inp) ==
  /\ \E b \in boms : b.id = inp.id
  /\ inp.parent_item_id # Absent \/ inp.component_item_id # Absent
  /\ LET new == UpdateValues(inp, CHOOSE b \in boms : b.id = inp.id)
     IN new.parent_item_id # new.component_item_id

\* C15 -- BOM rewiring: an update that gives an edge a new parent and/or
\* component is refused with CircularDependency, the edge staying as it was,
\* exactly when the other edges (all but the one updated) hold a path from
\* the new component to the new parent; the edge's own old ends never count.
RewiringStep(inp) ==
  LET cur == CHOOSE b \in boms : b.id = inp.id
      new == UpdateValues(inp, cur)
      others == {b \in boms : b.id # inp.id}
      path == new.parent_item_id \in ComponentsOf(others, new.component_item_id)
  IN /\ (last'.outcome = "CircularDependency") <=> path
     /\ path => boms' = boms

C15_Rewiring ==
  [][last'.op = "updateBillOfMaterial" =>
       \A inp \in RingRewirings :
         (IsRewiring(inp) /\ IsUpdate(inp)) => RewiringStep(inp)]_vars

IsCreate(inp) ==
  LET outcome == CreateOutcome(inp, boms)
  IN /\ boms' = IF outcome = "ok"
                 THEN boms \cup {Bom(nextBomId, inp.parent_item_id,
                                     inp.component_item_id, inp.quantity)}
                 ELSE boms
     /\ last' = Call("createBillOfMaterial", Rejected(outcome))

NoSelfLoop(bs) == \A b \in bs : b.parent_item_id # b.component_item_id

SelfRejected == last'.outcome = "SelfReference" /\ boms' = boms

\* the edge named by the input is on file and would get equal ends
SelfRewiring(inp) ==
  /\ \E b \in boms : b.id = inp.id
  /\ LET new == UpdateValues(inp, CHOOSE b \in boms : b.id = inp.id)
     IN new.parent_item_id = new.component_item_id

\* C16 -- no self-loop: no step leaves an edge whose parent is its component;
\* a create that names one item on file as parent and as component, and an
\* update of an edge on file whose resulting parent and component coincide,
\* are refused with SelfReference and the edges stay as they were.
C16_NoSelfLoop ==
  [][/\ NoSelfLoop(boms')
     /\ last'.op = "createBillOfMaterial" =>
          \A inp \in CheckedRecipes :
            (/\ inp.parent_item_id = inp.component_item_id
             /\ inp.parent_item_id \in DOMAIN items
             /\ IsCreate(inp)) => SelfRejected
     /\ last'.op = "updateBillOfMaterial" =>
          \A inp \in CheckedRewirings :
            (SelfRewiring(inp) /\ IsUpdate(inp)) => SelfRejected]_vars

\* an update that would give an edge on file equal ends has been refused
C16_Witness ==
  /\ last.op = "updateBillOfMaterial"
  /\ last.outcome = "SelfReference"
  /\ boms # {}
  /\ NoSelfLoop(boms)

\* C17 -- Produce preconditions: produce of an item on file that is not
\* marked as manufactured fails with NotManufactured, and produce of a
\* manufactured item without a direct BOM edge fails with NoBom; neither
\* appends a movement, whatever the ledger holds.
ProducePreconditionStep(inp) ==
  IF ~ items[inp.item_id].is_manufactured
  THEN last'.outcome = "NotManufactured" /\ ledger' = ledger
  ELSE DirectEdges(boms, inp.item_id) = {}
       => (last'.outcome = "NoBom" /\ ledger' = ledger)

C17_ProducePreconditions ==
  [][last'.op = "produceItem" =>
       \A inp \in CheckedProductions :
         (inp.item_id \in DOMAIN items /\ IsProduce(inp))
         => ProducePreconditionStep(inp)]_vars

\* produce of the item that is not manufactured was refused although it has
\* a component on file and that component is in stock
C17_Witness ==
  /\ last.op = "produceItem"
  /\ last.outcome = "NotManufactured"
  /\ \E b \in boms :
       /\ ~ items[b.parent_item_id].is_manufactured
       /\ \E l \in locations : Stock(ledger, b.component_item_id, l) > 0

\* the step is a transferStock call with this input
IsTransfer(inp) ==
  Serve("transferStock", TransferResult(inp, ledger, clock))

\* C18 -- Same-location transfer: a transfer of an item on file from a
\* location on file to that same location is refused with SameLocation,
\* whatever the item's stock there, and appends no movement.
C18_SameLocation ==
  [][last'.op = "transferStock" =>
       \A inp \in CheckedTransfers :
         (/\ inp.location_id = inp.to_location_id
          /\ inp.item_id \in DOMAIN items
          /\ inp.location_id \in locations
          /\ IsTransfer(inp))
         => (last'.outcome = "SameLocation" /\ ledger' = ledger)]_vars

\* a same-location transfer was refused while the location held enough of
\* an item to serve it
C18_Witness ==
  /\ last.op = "transferStock"
  /\ last.outcome = "SameLocation"
  /\ \E inp \in CheckedTransfers :
       /\ inp.location_id = inp.to_location_id
       /\ inp.item_id \in DOMAIN items
       /\ inp.location_id \in locations
       /\ Stock(ledger, inp.item_id, inp.location_id) >= inp.quantity

\* the step appends one row of this type and quantity for the pair of the
\* input, moves the pair's quantity by that much and no other pair's
BooksOne(inp, type, quantity) ==
  LET row == ledger'[Len(ledger')]
  IN /\ last'.outcome = "ok"
     /\ Len(ledger') = Len(ledger) + 1
     /\ SubSeq(ledger', 1, Len(ledger)) = ledger
     /\ row.movement_type = type
     /\ row.item_id = inp.item_id
     /\ row.location_id = inp.location_id
     /\ row.quantity = quantity
     /\ Stock(ledger', inp.item_id, inp.location_id)
        = Stock(ledger, inp.item_id, inp.location_id) + quantity
     /\ \A pr \in Pairs :
          pr # <<inp.item_id, inp.location_id>>
          => Stock(ledger', pr[1], pr[2]) = Stock(ledger, pr[1], pr[2])

\* the step is an adjustStock call with this input
IsAdjust(inp) == Serve("adjustStock", AdjustResult(inp, clock))

\* C19 -- Adjust: for an item and a location on file, an adjustment by any
\* signed quantity, zero included, goes through and appends exactly one
\* Adjustment row carrying that quantity; no stock is required, so the pair
\* may end below zero, and no other pair changes.
C19_Adjust ==
  [][last'.op = "adjustStock" =>
       \A inp \in CountedAdjusts :
         (/\ inp.item_id \in DOMAIN items
          /\ inp.location_id \in locations
          /\ IsAdjust(inp)) => BooksOne(inp, "Adjustment", inp.quantity)]_vars

\* an adjustment has just taken a pair below zero while the item's other
\* location holds stock
C19_Witness ==
  /\ last.op = "adjustStock"
  /\ last.outcome = "ok"
  /\ ledger # <<>>
  /\ LET row == ledger[Len(ledger)]
     IN /\ row.movement_type = "Adjustment"
        /\ row.quantity < 0
        /\ Stock(ledger, row.item_id, row.location_id) < 0
        /\ \E l \in LocationIds :
             l # row.location_id /\ Stock(ledger, row.item_id, l) > 0

\* the step is a receiveStock call with this input
IsReceive(inp) == Serve("receiveStock", ReceiveResult(inp, clock))

\* C20 -- Receive: for an item and a location on file, and a supplier on
\* file when one is given, a receipt of q > 0 goes through, appends exactly
\* one Receipt row of +q, raises the pair's quantity by exactly q and changes
\* no other pair.
C20_Receive ==
  [][last'.op = "receiveStock" =>
       \A inp \in CountedReceipts :
         (/\ inp.item_id \in DOMAIN items
          /\ inp.location_id \in locations
          /\ inp.partner_id # Absent => inp.partner_id \in suppliers
          /\ inp.quantity > 0
          /\ IsReceive(inp)) => BooksOne(inp, "Receipt", inp.quantity)]_vars

\* a receipt without a supplier has just raised a pair that was below zero
\* while the item's other location holds a quantity of its own
C20_Witness ==
  /\ last.op = "receiveStock"
  /\ last.outcome = "ok"
  /\ ledger # <<>>
  /\ LET row == ledger[Len(ledger)]
     IN /\ row.movement_type = "Receipt"
        /\ row.reference.tag = "none"
        /\ Stock(ledger, row.item_id, row.location_id) < row.quantity
        /\ \E l \in LocationIds :
             l # row.location_id /\ Stock(ledger, row.item_id, l) # 0

\* the step is a deleteBillOfMaterial call with this id
IsDelete(id) ==
  /\ boms' = DeletedBoms(id, boms)
  /\ last' = Call("deleteBillOfMaterial",
                  Rejected(IF boms' # boms THEN "true" ELSE "false"))

\* C21 -- BOM delete: a delete of an edge id is never refused; it answers
\* true and removes exactly the edge of that id when it is on file, answers
\* false and changes nothing when it is not, and either way leaves every
\* other edge and the whole ledger as they were.
DeleteStep(id) ==
  LET named == {b \in boms : b.id = id}
  IN /\ last'.outcome \in {"true", "false"}
     /\ (last'.outcome = "true") <=> (named # {})
     /\ boms' = boms \ named
     /\ Cardinality(boms') = Cardinality(boms) - (IF named = {} THEN 0 ELSE 1)
     /\ ledger' = ledger

C21_BomDelete ==
  [][last'.op = "deleteBillOfMaterial" =>
       \A id \in RemovalIds : IsDelete(id) => DeleteStep(id)]_vars

\* one of two edges of a parent has been removed, the other is still on
\* file, and the ledger holds movements
C21_Witness ==
  /\ last.op = "deleteBillOfMaterial"
  /\ last.outcome = "true"
  /\ ledger # <<>>
  /\ \E b \in boms :
       /\ b.parent_item_id = 1
       /\ nextBomId > Cardinality(boms) + 1

\* the step is a getStockLevels call with these filters
IsLevels(itemId, locationId) ==
  /\ ledger' = ledger
  /\ \E rows \in Orders(StockLevelRows(ledger, itemId, locationId)) :
       last' = Call("getStockLevels", Result("ok", rows, 0, 0, <<>>))

\* the pair has at least one movement and passes the filters given
Reported(led, pr, itemId, locationId) ==
  /\ \E k \in 1..Len(led) : led[k].item_id = pr[1] /\ led[k].location_id = pr[2]
  /\ itemId # Absent => pr[1] = itemId
  /\ locationId # Absent => pr[2] = locationId

\* C22 -- Stock levels: in every ledger state getStockLevels returns exactly
\* one row for each (item, location) pair that has at least one movement and
\* passes the item and location filters given, pairs that sum to zero
\* included, and none for a pair without movement; a row's quantity is the
\* sum of the pair's movement quantities, the value the sufficiency checks
\* of issue, transfer and produce read.
LevelsStep(itemId, locationId) ==
  LET rows == last'.rows
      pairs == {pr \in Pairs : Reported(ledger, pr, itemId, locationId)}
  IN /\ Len(rows) = Cardinality(pairs)
     /\ {<<rows[k].item_id, rows[k].location_id>> : k \in 1..Len(rows)} = pairs
     /\ \A k \in 1..Len(rows) :
          /\ rows[k].current_quantity
             = Stock(ledger, rows[k].item_id, rows[k].location_id)
          /\ rows[k].current_quantity
             = CurrentQuantity(ledger, rows[k].item_id, rows[k].location_id)

C22_StockLevels ==
  [][last'.op = "getStockLevels" =>
       \A itemId \in LevelItemFilters, locationId \in LevelLocationFilters :
         IsLevels(itemId, locationId) => LevelsStep(itemId, locationId)]_vars

\* an unfiltered report lists a pair that sums to zero next to a pair that
\* holds stock, while another pair has no movement and no row
C22_Witness ==
  /\ last.op = "getStockLevels"
  /\ Len(last.rows) = 2
  /\ \E k \in 1..2 : last.rows[k].current_quantity = 0
  /\ \E k \in 1..2 : last.rows[k].current_quantity > 0
  /\ Len(ledger) >= 3

\* the step is a getStockMovements call with this input
IsMovements(input) ==
  /\ ledger' = ledger
  /\ \E rows \in StockMovementRows(ledger, input) :
       last' = Call("getStockMovements", Result("ok", rows, 0, 0, <<>>))

\* C23 -- Movement query: getStockMovements returns exactly the movements
\* that pass every filter given (item, location, kind, start date and end
\* date, both inclusive), newest event date first and, within one date, the
\* row created later first; the same query on the same ledger has one
\* possible answer only.
MovementsStep(input) ==
  LET rows == last'.rows
      passing == {k \in 1..Len(ledger) :
                    /\ input.item_id # Absent => ledger[k].item_id = input.item_id
                    /\ input.location_id # Absent
                       => ledger[k].location_id = input.location_id
                    /\ input.movement_type # "any"
                       => ledger[k].movement_type = input.movement_type
                    /\ input.start_date # Absent => ~(ledger[k].date < input.start_date)
                    /\ input.end_date # Absent => ~(ledger[k].date > input.end_date)}
  IN /\ Len(rows) = Cardinality(passing)
     /\ {rows[n].id : n \in 1..Len(rows)} = passing
     /\ \A n \in 1..Len(rows) :
          /\ rows[n].item_id = ledger[rows[n].id].item_id
          /\ rows[n].location_id = ledger[rows[n].id].location_id
          /\ rows[n].movement_type = ledger[rows[n].id].movement_type
          /\ rows[n].quantity = ledger[rows[n].id].quantity
          /\ rows[n].date = ledger[rows[n].id].date
     /\ \A n \in 1..(Len(rows) - 1) :
          \/ rows[n].date > rows[n + 1].date
          \/ rows[n].date = rows[n + 1].date /\ rows[n].id > rows[n + 1].id
     /\ Cardinality(StockMovementRows(ledger, input)) = 1

FlaggedRow(row) ==
  /\ "below_reorder" \in DOMAIN row
  /\ row.below_reorder <=> (row.current_quantity <= row.reorder_level)

C24_ReorderFlag ==
  [][/\ last'.op = "getStockLevels" =>
          \A k \in 1..Len(last'.rows) : FlaggedRow(last'.rows[k])
     /\ last'.op = "getDashboardMetrics" =>
          last'.rows[1].low_stock_items
          = Cardinality({i \in DOMAIN items :
                           Stock(ledger, i, 1) + Stock(ledger, i, 2)
                           <= items[i].reorder_level})]_vars

\* C25 -- Duplicate-component production: when several BOM edges of the
\* produced item name one component, produce holds the component's stock
\* against the total of those edges, so a produce that goes through never
\* consumes more of a component than the location held.
ConsumedOf(rows, item) ==
  SumQuantity(rows, {k \in 1..Len(rows) :
                       /\ rows[k].movement_type = "Consumption"
                       /\ rows[k].item_id = item})

C25_DuplicateComponents ==
  [][(last'.op = "produceItem" /\ last'.outcome = "ok") =>
       \A c \in ItemIds :
         -ConsumedOf(last'.rows, c)
         <= Stock(ledger, c, last'.rows[1].location_id)]_vars

\* C26 -- Cycle-search termination: the search run when an edge is created
\* or rewired ends for every edge set on file, one that already holds a
\* cycle away from the prospective parent included, and finds a cycle exactly
\* when the prospective parent can be reached from the prospective
\* component.
SearchStep(parent, component, others) ==
  /\ last'.outcome # "Hang"
  /\ (last'.outcome = "CircularDependency")
     <=> (parent \in ComponentsOf(others, component))

C26_SearchTerminates ==
  [][/\ last'.op = "createBillOfMaterial" =>
          \A inp \in RingRecipes :
            (/\ IsCreate(inp)
             /\ inp.parent_item_id \in DOMAIN items
             /\ inp.component_item_id \in DOMAIN items
             /\ inp.parent_item_id # inp.component_item_id)
            => SearchStep(inp.parent_item_id, inp.component_item_id, boms)
     /\ last'.op = "updateBillOfMaterial" =>
          \A inp \in RingRewirings :
            (IsRewiring(inp) /\ IsUpdate(inp))
            => LET new == UpdateValues(inp, CHOOSE b \in boms : b.id = inp.id)
               IN SearchStep(new.parent_item_id, new.component_item_id,
                             {b \in boms : b.id # inp.id})]_vars

\* the graphs a request served alone may leave, from the edges bs
ServedAlone(op, inp, bs) ==
  IF op = "createBillOfMaterial"
  THEN {IF CreateOutcome(inp, bs) = "ok"
        THEN bs \cup {Bom(Cardinality(bs) + 1, inp.parent_item_id,
                          inp.component_item_id, inp.quantity)}
        ELSE bs}
  ELSE {IF outcome = "ok" THEN UpdatedBoms(inp, bs) ELSE bs :
          outcome \in UpdateOutcomes(inp, bs) \ {"Hang"}}

\* the graphs the requests of p and q may leave when p is served before q
ServedInTurn(p, q) ==
  UNION {ServedAlone(procs[q].op, procs[q].inp, mid) :
           mid \in ServedAlone(procs[p].op, procs[p].inp, procs[p].start)}

\* a graph without the ids of its edges
Shape(bs) ==
  [edges |-> {<<b.parent_item_id, b.component_item_id, b.quantity>> : b \in bs},
   count |-> Cardinality(bs)]

\* C27 -- Concurrent BOM edits: however the statements of two BOM create or
\* update requests in flight together interleave, the graph they leave is
\* one that serving the two one after the other, in one of the two orders,
\* could have left; two creates of A -> B and B -> A do not both go through,
\* nor do two creates of one (parent, component) pair.
C27_SerialEdits ==
  (\A p \in Procs : procs[p].pc = "bomDone")
  => Shape(boms) \in {Shape(bs) : bs \in ServedInTurn(1, 2) \cup ServedInTurn(2, 1)}

\* every movement names an item and a location on file, every edge names
\* two items on file
ReferencesResolve ==
  /\ \A k \in 1..Len(ledger) :
       ledger[k].item_id \in DOMAIN items /\ ledger[k].location_id \in locations
  /\ \A b \in boms :
       b.parent_item_id \in DOMAIN items /\ b.component_item_id \in DOMAIN items

\* an edge or a movement names the item
ItemInUse(id) ==
  \/ \E b \in boms : b.parent_item_id = id \/ b.component_item_id = id
  \/ \E k \in 1..Len(ledger) : ledger[k].item_id = id

\* a movement names the location
LocationInUse(id) == \E k \in 1..Len(ledger) : ledger[k].location_id = id

\* C28 -- Referential integrity: at every point of a run that deletes items
\* and locations, each movement names an item and a location on file and
\* each BOM edge names two items on file; a deleteItem leaves in place every
\* item that an edge (as parent or component) or a movement names, and a
\* deleteLocation every location that a movement names; a delete that was
\* refused removes nothing, and no delete touches the edges or the ledger.
C28_ReferentialIntegrity ==
  /\ []ReferencesResolve
  /\ [][/\ last'.op = "deleteItem" =>
            /\ \A id \in DOMAIN items : ItemInUse(id) => id \in DOMAIN items'
            /\ last'.outcome # "ok" => items' = items
            /\ boms' = boms /\ ledger' = ledger
        /\ last'.op = "deleteLocation" =>
            /\ \A id \in locations : LocationInUse(id) => id \in locations'
            /\ last'.outcome # "ok" => locations' = locations
            /\ boms' = boms /\ ledger' = ledger]_vars

\* the deletion of an item that an edge names was refused, after an item
\* and a location that nothing named had been deleted, with movements and
\* an edge on file
C28_Witness ==
  /\ last.op = "deleteItem"
  /\ last.outcome = "ReferencedInBom"
  /\ DOMAIN items # ItemIds
  /\ locations # LocationIds
  /\ ledger # <<>>
  /\ boms # {}
  /\ \E b \in boms : \A k \in 1..Len(ledger) :
       ledger[k].item_id # b.component_item_id

\* the edges without their quantities
Topology(bs) ==
  {<<b.id, b.parent_item_id, b.component_item_id>> : b \in bs}

\* C29 -- Partial BOM update: an update changes, of the edge it names, the
\* fields it supplies and no other: a parent, component or quantity it
\* omits keeps its value; every other edge stays as it was and no edge is
\* added or removed; an update that is not accepted changes nothing; an
\* update that supplies a quantity alone is accepted for every edge on file
\* and leaves every edge's parent and component as they were.
PartialStep(inp) ==
  LET named == {b \in boms : b.id = inp.id}
      after == {b \in boms' : b.id = inp.id}
  IN /\ {b \in boms : b.id # inp.id} = {b \in boms' : b.id # inp.id}
     /\ Cardinality(after) = Cardinality(named)
     /\ last'.outcome # "ok" => boms' = boms
     /\ last'.outcome = "ok" =>
          \A cur \in named : \A new \in after :
            /\ new.parent_item_id =
                 (IF inp.parent_item_id = Absent THEN cur.parent_item_id
                  ELSE inp.parent_item_id)
            /\ new.component_item_id =
                 (IF inp.component_item_id = Absent THEN cur.component_item_id
                  ELSE inp.component_item_id)
            /\ new.quantity =
                 (IF inp.quantity = Absent THEN cur.quantity ELSE inp.quantity)
     /\ (/\ named # {}
         /\ inp.parent_item_id = Absent
         /\ inp.component_item_id = Absent
         /\ inp.quantity # Absent)
        => last'.outcome = "ok" /\ Topology(boms') = Topology(boms)

C29_PartialUpdate ==
  [][last'.op = "updateBillOfMaterial" =>
       \A inp \in PartialUpdates : IsUpdate(inp) => PartialStep(inp)]_vars

\* an update went through while the edges 1 -> 2 -> 3 -> 1 were all on
\* file, where only an update of a quantity alone is accepted, and an edge
\* of the ring carries the new quantity
C29_Witness ==
  /\ last.op = "updateBillOfMaterial"
  /\ last.outcome = "ok"
  /\ {<<b.parent_item_id, b.component_item_id>> : b \in boms}
       = {<<1, 2>>, <<2, 3>>, <<3, 1>>}
  /\ \E b \in boms : b.quantity = 2 * Scale

\* C30 -- Production correlation: the rows one successful produce appends
\* all carry one date; the first, the Production row, carries the caller's
\* reference as given (null when none was given); every other row is a
\* Consumption row whose reference is "Production of <item name>", alone
\* when the caller gave no reference, followed by " - <reference>" when the
\* caller gave a text, and one of the two when the caller gave an empty text.
CorrelationStep(inp) ==
  LET n == Len(ledger)
      new == SubSeq(ledger', n + 1, Len(ledger'))
      base == "Production of " \o ItemName(inp.item_id)
  IN /\ Len(new) >= 2
     /\ \A k \in 1..Len(new) : new[k].date = new[1].date
     /\ new[1].movement_type = "Production"
     /\ new[1].reference.text = inp.reference
     /\ \A k \in 2..Len(new) :
          /\ new[k].movement_type = "Consumption"
          /\ new[k].reference.text \in {base, base \o " - " \o inp.reference}
          /\ inp.reference = "null" => new[k].reference.text = base
          /\ inp.reference \notin {"null", ""}
             => new[k].reference.text = base \o " - " \o inp.reference

C30_ProductionCorrelation ==
  [][last'.op = "produceItem" =>
       \A inp \in CorrelationProductions :
         IsProduced(inp) => CorrelationStep(inp)]_vars

\* item 1 has been produced from two components with no reference, on a
\* later date than the receipts: one Production row and two Consumption rows
\* of that date, the Consumption rows naming the item alone
C30_Witness ==
  /\ last.op = "produceItem"
  /\ last.outcome = "ok"
  /\ Len(ledger) >= 5
  /\ LET n == Len(ledger)
     IN /\ ledger[n - 2].movement_type = "Production"
        /\ ledger[n - 2].reference.text = "null"
        /\ ledger[n - 2].date > ledger[1].date
        /\ ledger[n - 1].reference.text = "Production of item1"
        /\ ledger[n].reference.text = "Production of item1"
        /\ ledger[n].date = ledger[n - 2].date

====
